---- MODULE Spec2Model ----
(***************************************************************************)
(* Model of the book-of-mormon-visualizer search and layout core:          *)
(*   - the bounded min-heap top-k search of utils/semanticSearch.js and    *)
(*     workers/semanticSearchWorker.js,                                    *)
(*   - the SemanticSearchIndex life cycle (init, worker hand-off, the      *)
(*     request/response protocol with the worker, model loading),          *)
(*   - wrapVerses of the text layout,                                      *)
(*   - the loading of the embeddings file (_loadEmbeddings),               *)
(*   - the SearchManager (exact search and match navigation),              *)
(*   - calculateColumnLayout, mapLinesToBooks and calculateBookRegions,    *)
(*   - the view of the visualization controller (zoom, pan, jumps, reset), *)
(*   - parseBookOfMormonText and loadBookOfMormon,                         *)
(*   - the TextRenderer sprite pool and the HighlightRenderer,             *)
(*   - updateTransform on the ticker, with pan and setZoom,                *)
(*   - the SearchControls handlers and their debounce timer,               *)
(*   - the ViewportManager's getVisibleLineRange,                          *)
(*   - handleResize and the walk through the matches of the controller,    *)
(*   - the BookBackgroundRenderer.                                         *)
(* Arrays of the source are 0-based; sequences here are 1-based, so the    *)
(* element the source calls a[i] is a[i + 1] here.                         *)
(***************************************************************************)
EXTENDS Integers, Sequences, FiniteSets, TLC

VARIABLES
    heap,               \* SpecHeap: the heap array of utils/semanticSearch.js
    wHeap,              \* SpecHeap: the heap array of the worker's copy
    heapLast,           \* SpecHeap: the last heap call made
    sIndex,             \* SpecSearch: the in-process index after _loadEmbeddings
    sWorker,            \* SpecSearch: the worker's module state after 'init'
    sLast,              \* SpecSearch: the last call and what each side returned
    verses,             \* SpecWrap: wrapVerses' verses argument
    lineWidth,          \* SpecWrap: wrapVerses' lineWidth argument
    lines,              \* SpecWrap: wrapVerses' lines array
    verseStartLines,    \* SpecWrap: wrapVerses' verseStartLines array
    batchStart,         \* SpecWrap: the outer loop's batchStart
    wrapPc,             \* SpecWrap: "idle", "loop" (between batches) or "returned"
    \* Spec: one SemanticSearchIndex, its worker and its callers
    searchIndex,        \* embeddingSize, embeddingsPacked, verseIndices, verseIndexToRow
    extractor,          \* this.extractor: null or the pipeline
    worker,             \* this.worker is set
    workerReady,        \* this.workerReady
    workerReadyPromise, \* "none", "pending" or "resolved"
    pendingRequests,    \* the keys of this.pendingRequests
    nextRequestId,      \* this.nextRequestId
    workerSupported,    \* this.workerSupported
    wk,                 \* the worker's module state
    inbox,              \* messages posted to the worker, not yet handled
    outbox,             \* messages posted by the worker, not yet handled
    initPc,             \* where each init() call stands
    originalFetch,      \* _loadModel's originalFetch of each init() call
    globalFetch,        \* globalThis.fetch
    transformers,       \* the module's pipeline and env are set
    calls,              \* the search calls made, each with its promise's state
    delivered,          \* the worker's messages the index has handled
    loadResponse,       \* SpecLoad: what fetch(embeddingsUrl) gives _loadEmbeddings
    loadOut,            \* SpecLoad: how _loadEmbeddings ended, and the index then
    smLines,            \* SpecMatch: the lines the searches are made over
    searchMatches,      \* SpecMatch: SearchManager.searchMatches
    matchesByLine,      \* SpecMatch: SearchManager.matchesByLine
    searchResultCount,  \* SpecMatch: SearchManager.searchResultCount
    currentMatchIndex,  \* SpecMatch: SearchManager.currentMatchIndex
    smLast,             \* SpecMatch: the last call made and what it returned
    smVisited,          \* SpecMatch: what the moveToNextMatch calls in a row returned
    smStart,            \* SpecMatch: currentMatchIndex before the first of them
    lyLines,            \* layout: the wrapped lines handed to calculateColumnLayout
    lySingle,           \* layout: isSingleBookView
    lyMarkers,          \* layout: bookMarkers, {bookIndex, lineIndex} by verse
    lyVerseStart,       \* layout: verseStartLines
    layout,             \* layout: result of calculateColumnLayout, or Null
    lineToBook,         \* layout: result of mapLinesToBooks, or Null
    bookRegions,        \* layout: result of calculateBookRegions, or Null
    vScreen,            \* SpecView: app.screen, width and height
    initialZoom,        \* SpecView: initialZoom of the controller
    zoom,               \* SpecView: zoom
    offsetX,            \* SpecView: offsetX
    offsetY,            \* SpecView: offsetY
    container,          \* SpecView: scale, x and y of the PIXI container
    viewMatches,        \* SpecView: the controller's searchMatches
    viewMatchIndex,     \* SpecView: the controller's currentMatchIndex
    vInit,              \* SpecView: zoom and offsets right after creation
    vLast,              \* SpecView: the last call, with the view before it
    vOps,               \* SpecView: number of calls made
    rawText,            \* SpecParse: the lines of the source text
    filterBookIndex,    \* SpecParse: filterBookIndex
    parsed,             \* SpecParse: result of parseBookOfMormonText, or Null
    loadedText,         \* SpecParse: result of loadBookOfMormon, or Null
    rdLines,            \* the lines the renderers show
    rdLayout,           \* their column layout
    sprites,            \* every Text object a TextRenderer created, by identity
    textSprites,        \* TextRenderer.textSprites: the entries in insertion order
    spritePool,         \* TextRenderer.spritePool
    graphics,           \* the Graphics objects the last HighlightRenderer call let go of
    highlightSprites,   \* HighlightRenderer.highlightSprites, in insertion order
    highlightGraphics,  \* the rectangles drawn into HighlightRenderer.highlightGraphics
    rdLast,             \* the last renderer call: its arguments and what was tracked before it
    tkScreen,           \* SpecTicker: app.screen
    tkView,             \* zoom, offsetX, offsetY of the controller
    frameCount,         \* frameCount of updateTransform; only its parity is read, and kept
    lastViewportHash,   \* lastViewportHash of updateTransform, Null for ''
    tkRendered,         \* the visible range of the last renderVisibleText()
    tkInputs,           \* number of pan and setZoom calls so far
    scControls,         \* SpecControls: searchTerm, toggle, timer, result text, button of SearchControls
    scVisualization,    \* the controller behind it: match state, latest request, searches in flight
    scEvent,            \* the last event: a user action, the timer or a result
    scActions,          \* number of user actions so far
    viewportManager,    \* SpecViewport: the ViewportManager (app.screen, maxColumnLength, visibleRangeResult)
    vmCalls,            \* SpecViewport: the getVisibleLineRange calls made: inputs, range computed, object returned
    backgroundGraphics, \* SpecBackground: the rectangles drawn on BookBackgroundRenderer's graphics
    bgPass              \* SpecBackground: the bookRegions, the visible range of the last pass and the passes made

heapVars == <<heap, wHeap, heapLast>>
searchVars == <<sIndex, sWorker, sLast>>
wrapVars == <<verses, lineWidth, lines, verseStartLines, batchStart, wrapPc>>
indexVars ==
    <<searchIndex, extractor, worker, workerReady, workerReadyPromise, pendingRequests,
      nextRequestId, workerSupported, wk, inbox, outbox, initPc, originalFetch,
      globalFetch, transformers, calls, delivered>>
coreVars == <<heapVars, searchVars, wrapVars, indexVars>>
loadVars == <<loadResponse, loadOut>>
matchVars == <<smLines, searchMatches, matchesByLine, searchResultCount, currentMatchIndex, smLast, smVisited, smStart>>
layoutVars == <<lyLines, lySingle, lyMarkers, lyVerseStart, layout, lineToBook, bookRegions>>
viewVars == <<vScreen, initialZoom, zoom, offsetX, offsetY, container, viewMatches, viewMatchIndex, vInit, vLast, vOps>>
parseVars == <<rawText, filterBookIndex, parsed, loadedText>>
renderVars == <<rdLines, rdLayout, sprites, textSprites, spritePool, graphics, highlightSprites, highlightGraphics, rdLast>>
tickerVars == <<tkScreen, tkView, frameCount, lastViewportHash, tkRendered, tkInputs>>
controlsVars == <<scControls, scVisualization, scEvent, scActions>>
viewportVars == <<viewportManager, vmCalls>>
backgroundVars == <<backgroundGraphics, bgPass>>
restVars == <<loadVars, matchVars, layoutVars, viewVars, parseVars, renderVars, tickerVars, controlsVars, viewportVars, backgroundVars>>
notLoadVars == <<coreVars, matchVars, layoutVars, viewVars, parseVars, renderVars, tickerVars, controlsVars, viewportVars, backgroundVars>>
notMatchVars == <<coreVars, loadVars, layoutVars, viewVars, parseVars, renderVars, tickerVars, controlsVars, viewportVars, backgroundVars>>
notLayoutVars == <<coreVars, loadVars, matchVars, viewVars, parseVars, renderVars, tickerVars, controlsVars, viewportVars, backgroundVars>>
notViewVars == <<coreVars, loadVars, matchVars, layoutVars, parseVars, renderVars, tickerVars, controlsVars, viewportVars, backgroundVars>>
notParseVars == <<coreVars, loadVars, matchVars, layoutVars, viewVars, renderVars, tickerVars, controlsVars, viewportVars, backgroundVars>>
notRenderVars == <<coreVars, loadVars, matchVars, layoutVars, viewVars, parseVars, tickerVars, controlsVars, viewportVars, backgroundVars>>
notTickerVars == <<coreVars, loadVars, matchVars, layoutVars, viewVars, parseVars, renderVars, controlsVars, viewportVars, backgroundVars>>
notControlsVars == <<coreVars, loadVars, matchVars, layoutVars, viewVars, parseVars, renderVars, tickerVars, viewportVars, backgroundVars>>
notViewportVars == <<coreVars, loadVars, matchVars, layoutVars, viewVars, parseVars, renderVars, tickerVars, controlsVars, backgroundVars>>
notBackgroundVars == <<coreVars, loadVars, matchVars, layoutVars, viewVars, parseVars, renderVars, tickerVars, controlsVars, viewportVars>>
vars == <<coreVars, restVars>>

(***************************************************************************)
(* Bounds of the model.                                                    *)
(***************************************************************************)
MaxHeapLen == 4
MaxScore == 3
MaxRows == 3
\* JS numbers that name a verse are held in fixed point, Unit steps to 1, so
\* that numbers an Int32Array cannot hold (1.5 is Unit + Unit \div 2) exist.
Unit == 2
MaxVerses == 3
MaxChars == 5
MaxLineWidth == 3
\* Stands for VISUALIZATION_CONFIG.batchSize (500), scaled down so that a run
\* of wrapVerses has several batches.
BatchSize == 2
MaxInits == 2
MaxCalls == 2
MaxItems == 2
MaxTextLen == 7
MaxSetMatches == 2
MaxLayoutLines == 7
MaxMarkers == 2
MaxBookIndex == 1
MaxLinesPerVerse == 2
\* Stand for VISUALIZATION_CONFIG.minLinesPerColumn (225 and 300) and
\* maxColumns (16 and 8), scaled down so that both the column cap and columns
\* of a few lines occur within MaxLayoutLines lines.
MinLinesSingleBook == 2
MinLinesMultiBook == 3
MaxColumnsSingleBook == 3
MaxColumnsMultiBook == 2
\* JS numbers of the view (zoom, pixels) are held in fixed point, Scale steps
\* to 1: every product and quotient is rounded to the nearest step, as a
\* double rounds to the nearest representable number.
Scale == 100
\* Largest magnitude a product or quotient may take before it is rounded
MaxNumber == 1000000000
\* Lines of the longest column of the controller's text
LinesPerViewColumn == 10
MaxViewOps == 3
MaxSourceLines == 4
MaxChapter == 2

(***************************************************************************)
(* JS values.                                                              *)
(***************************************************************************)
\* null is <<>>, a value v that may be null is <<v>>.
Null == <<>>
Some(v) == <<v>>
IsNull(o) == Len(o) = 0
Val(o) == o[1]

\* Storing a number in an Int32Array truncates it toward zero (the numbers of
\* the model stay far below 2^31).
ToInt32(x) ==
    IF x >= 0 THEN (x \div Unit) * Unit ELSE 0 - (((0 - x) \div Unit) * Unit)

\* Array.prototype.sort((a, b) => b.score - a.score): stable, descending.
InsertDesc(sorted, x) ==
    LET n == Cardinality({i \in 1..Len(sorted) : sorted[i].score >= x.score})
    IN  SubSeq(sorted, 1, n) \o <<x>> \o SubSeq(sorted, n + 1, Len(sorted))

\* A variant that leaves the array as it is.
SortNone(s) == s

RECURSIVE SortDesc(_)
SortDesc(s) ==
    IF Len(s) <= 1 THEN s
    ELSE InsertDesc(SortDesc(SubSeq(s, 1, Len(s) - 1)), s[Len(s)])


(***************************************************************************)
(* utils/semanticSearch.js: the heap of {verseIndex, score} entries, a     *)
(* min-heap on score.                                                      *)
(***************************************************************************)
Item(v, s) == [verseIndex |-> v, score |-> s]

Swap(h, i, j) == [h EXCEPT ![i + 1] = h[j + 1], ![j + 1] = h[i + 1]]

\* The while loop of heapPush.
RECURSIVE SiftUp(_, _)
SiftUp(h, index) ==
    IF index > 0
    THEN LET parent == (index - 1) \div 2
         IN  IF h[parent + 1].score <= h[index + 1].score
             THEN h
             ELSE SiftUp(Swap(h, parent, index), parent)
    ELSE h

\* A heapPush that appends without sifting up.
heapPushNoSift(h, item) == Append(h, item)

heapPush(h, item) ==
    LET pushed == Append(h, item)
    IN  SiftUp(pushed, Len(pushed) - 1)

RECURSIVE heapify(_, _)
heapify(h, index) ==
    LET length == Len(h)
        left == index * 2 + 1
        right == index * 2 + 2
        s1 == IF left < length /\ h[left + 1].score < h[index + 1].score
              THEN left ELSE index
        smallest == IF right < length /\ h[right + 1].score < h[s1 + 1].score
                    THEN right ELSE s1
    IN  IF smallest = index THEN h
        ELSE heapify(Swap(h, index, smallest), smallest)

\* heap[0] = item on an empty JS array makes it an array of length 1.
heapReplaceRoot(h, item) ==
    IF Len(h) = 0
    THEN heapify(<<item>>, 0)
    ELSE heapify([h EXCEPT ![1] = item], 0)

(***************************************************************************)
(* workers/semanticSearchWorker.js: the worker's own copy of the heap.     *)
(***************************************************************************)
RECURSIVE workerSiftUp(_, _)
workerSiftUp(h, index) ==
    IF index > 0
    THEN LET parent == (index - 1) \div 2
         IN  IF h[parent + 1].score <= h[index + 1].score
             THEN h
             ELSE workerSiftUp(Swap(h, parent, index), parent)
    ELSE h

workerHeapPush(h, item) ==
    LET pushed == Append(h, item)
    IN  workerSiftUp(pushed, Len(pushed) - 1)

RECURSIVE workerHeapify(_, _)
workerHeapify(h, index) ==
    LET length == Len(h)
        left == index * 2 + 1
        right == index * 2 + 2
        s1 == IF left < length /\ h[left + 1].score < h[index + 1].score
              THEN left ELSE index
        smallest == IF right < length /\ h[right + 1].score < h[s1 + 1].score
                    THEN right ELSE s1
    IN  IF smallest = index THEN h
        ELSE workerHeapify(Swap(h, index, smallest), smallest)

workerHeapReplaceRoot(h, item) ==
    IF Len(h) = 0
    THEN workerHeapify(<<item>>, 0)
    ELSE workerHeapify([h EXCEPT ![1] = item], 0)

(***************************************************************************)
(* utils/semanticSearch.js: the in-process search over the packed index.   *)
(* An index is [embeddingsPacked, verseIndices, verseIndexToRow,           *)
(* embeddingSize]; the two arrays may be null, the Map is a function from  *)
(* its keys to rows.                                                       *)
(***************************************************************************)
dotProductQueryRow(queryEmbedding, embeddingsPacked, embeddingSize, rowIndex) ==
    LET offset == rowIndex * embeddingSize
        sum[i \in 0..embeddingSize] ==
            IF i = 0 THEN 0
            ELSE sum[i - 1] + queryEmbedding[i] * embeddingsPacked[offset + i]
    IN  sum[embeddingSize]

dotProductRowRow(embeddingsPacked, embeddingSize, rowA, rowB) ==
    LET offsetA == rowA * embeddingSize
        offsetB == rowB * embeddingSize
        sum[i \in 0..embeddingSize] ==
            IF i = 0 THEN 0
            ELSE sum[i - 1] + embeddingsPacked[offsetA + i] * embeddingsPacked[offsetB + i]
    IN  sum[embeddingSize]

\* A loop body that never replaces the root once the heap is full.
HeapOfferNoReplace(h, limit, entry) ==
    IF Len(h) < limit THEN heapPush(h, entry) ELSE h

\* One pass of the bounded loop: push while the heap is not full, else
\* replace the root when the score beats it.
HeapOffer(h, limit, entry) ==
    IF Len(h) < limit THEN heapPush(h, entry)
    ELSE IF entry.score > h[1].score THEN heapReplaceRoot(h, entry)
    ELSE h

_searchPacked(idx, queryEmbedding, topK) ==
    IF IsNull(idx.embeddingsPacked) \/ IsNull(idx.verseIndices) THEN <<>>
    ELSE
    LET emb == Val(idx.embeddingsPacked)
        vi == Val(idx.verseIndices)
        n == Len(vi)
        limit == IF IsNull(topK) \/ Val(topK) <= 0 THEN Null ELSE topK
        entry(row) ==
            Item(vi[row + 1], dotProductQueryRow(queryEmbedding, emb, idx.embeddingSize, row))
        results[row \in 0..n] ==
            IF row = 0 THEN <<>> ELSE Append(results[row - 1], entry(row - 1))
        heapAt[row \in 0..n] ==
            IF row = 0 THEN <<>>
            ELSE HeapOffer(heapAt[row - 1], Val(limit), entry(row - 1))
    IN  IF IsNull(limit) THEN SortDesc(results[n]) ELSE SortDesc(heapAt[n])

\* A variant that does not pass over the rows of verseIndex itself.
_searchByVerseIndexPackedKeepSelf(idx, verseIndex, topK, minScore) ==
    IF IsNull(idx.embeddingsPacked) \/ IsNull(idx.verseIndices) THEN <<>>
    ELSE IF verseIndex \notin DOMAIN idx.verseIndexToRow THEN <<>>
    ELSE
    LET emb == Val(idx.embeddingsPacked)
        vi == Val(idx.verseIndices)
        n == Len(vi)
        rowIndex == idx.verseIndexToRow[verseIndex]
        limit == IF IsNull(topK) \/ Val(topK) <= 0 THEN Null ELSE topK
        score(row) == dotProductRowRow(emb, idx.embeddingSize, rowIndex, row)
        skip(row) == ~IsNull(minScore) /\ score(row) < Val(minScore)
        results[row \in 0..n] ==
            IF row = 0 THEN <<>>
            ELSE IF skip(row - 1) THEN results[row - 1]
            ELSE Append(results[row - 1], Item(vi[row], score(row - 1)))
        heapAt[row \in 0..n] ==
            IF row = 0 THEN <<>>
            ELSE IF skip(row - 1) THEN heapAt[row - 1]
            ELSE HeapOffer(heapAt[row - 1], Val(limit), Item(vi[row], score(row - 1)))
    IN  IF IsNull(limit) THEN SortDesc(results[n]) ELSE SortDesc(heapAt[n])

_searchByVerseIndexPacked(idx, verseIndex, topK, minScore) ==
    IF IsNull(idx.embeddingsPacked) \/ IsNull(idx.verseIndices) THEN <<>>
    ELSE IF verseIndex \notin DOMAIN idx.verseIndexToRow THEN <<>>
    ELSE
    LET emb == Val(idx.embeddingsPacked)
        vi == Val(idx.verseIndices)
        n == Len(vi)
        rowIndex == idx.verseIndexToRow[verseIndex]
        limit == IF IsNull(topK) \/ Val(topK) <= 0 THEN Null ELSE topK
        score(row) == dotProductRowRow(emb, idx.embeddingSize, rowIndex, row)
        skip(row) ==
            \/ vi[row + 1] = verseIndex
            \/ (~IsNull(minScore) /\ score(row) < Val(minScore))
        results[row \in 0..n] ==
            IF row = 0 THEN <<>>
            ELSE IF skip(row - 1) THEN results[row - 1]
            ELSE Append(results[row - 1], Item(vi[row], score(row - 1)))
        heapAt[row \in 0..n] ==
            IF row = 0 THEN <<>>
            ELSE IF skip(row - 1) THEN heapAt[row - 1]
            ELSE HeapOffer(heapAt[row - 1], Val(limit), Item(vi[row], score(row - 1)))
    IN  IF IsNull(limit) THEN SortDesc(results[n]) ELSE SortDesc(heapAt[n])

(***************************************************************************)
(* workers/semanticSearchWorker.js: the worker's search over its module    *)
(* state w = [embeddingsPacked, verseIndices, embeddingSize,               *)
(* verseIndexToRow]. The worker has no null guard: it is only asked after  *)
(* 'init' filled its state.                                                *)
(***************************************************************************)
workerDotProductQueryRow(w, queryEmbedding, rowIndex) ==
    LET offset == rowIndex * w.embeddingSize
        sum[i \in 0..w.embeddingSize] ==
            IF i = 0 THEN 0
            ELSE sum[i - 1] + queryEmbedding[i] * Val(w.embeddingsPacked)[offset + i]
    IN  sum[w.embeddingSize]

workerDotProductRowRow(w, rowA, rowB) ==
    LET offsetA == rowA * w.embeddingSize
        offsetB == rowB * w.embeddingSize
        sum[i \in 0..w.embeddingSize] ==
            IF i = 0 THEN 0
            ELSE sum[i - 1] + Val(w.embeddingsPacked)[offsetA + i]
                              * Val(w.embeddingsPacked)[offsetB + i]
    IN  sum[w.embeddingSize]

workerHeapOffer(h, limit, entry) ==
    IF Len(h) < limit THEN workerHeapPush(h, entry)
    ELSE IF entry.score > h[1].score THEN workerHeapReplaceRoot(h, entry)
    ELSE h

searchPacked(w, queryEmbedding, topK) ==
    LET vi == Val(w.verseIndices)
        n == Len(vi)
        limit == IF IsNull(topK) \/ Val(topK) <= 0 THEN Null ELSE topK
        entry(row) == Item(vi[row + 1], workerDotProductQueryRow(w, queryEmbedding, row))
        results[row \in 0..n] ==
            IF row = 0 THEN <<>> ELSE Append(results[row - 1], entry(row - 1))
        heapAt[row \in 0..n] ==
            IF row = 0 THEN <<>>
            ELSE workerHeapOffer(heapAt[row - 1], Val(limit), entry(row - 1))
    IN  IF IsNull(limit) THEN SortDesc(results[n]) ELSE SortDesc(heapAt[n])

searchByVerseIndexPacked(w, verseIndex, topK, minScore) ==
    IF verseIndex \notin DOMAIN w.verseIndexToRow THEN <<>>
    ELSE
    LET vi == Val(w.verseIndices)
        n == Len(vi)
        rowIndex == w.verseIndexToRow[verseIndex]
        limit == IF IsNull(topK) \/ Val(topK) <= 0 THEN Null ELSE topK
        score(row) == workerDotProductRowRow(w, rowIndex, row)
        skip(row) ==
            \/ vi[row + 1] = verseIndex
            \/ (~IsNull(minScore) /\ score(row) < Val(minScore))
        results[row \in 0..n] ==
            IF row = 0 THEN <<>>
            ELSE IF skip(row - 1) THEN results[row - 1]
            ELSE Append(results[row - 1], Item(vi[row], score(row - 1)))
        heapAt[row \in 0..n] ==
            IF row = 0 THEN <<>>
            ELSE IF skip(row - 1) THEN heapAt[row - 1]
            ELSE workerHeapOffer(heapAt[row - 1], Val(limit), Item(vi[row], score(row - 1)))
    IN  IF IsNull(limit) THEN SortDesc(results[n]) ELSE SortDesc(heapAt[n])

(***************************************************************************)
(* utils/semanticSearch.js: _loadEmbeddings. A response is                 *)
(* [rejects, status, contentType, parses, data]: fetch() rejecting, the    *)
(* HTTP status, the content-type header, response.json() succeeding, and   *)
(* the parsed document, null or [embeddingSize, items] with embeddingSize  *)
(* 0 when absent and items null when not an array. An item is null or      *)
(* [embedding, verseIndex], embedding null when not an array, verseIndex   *)
(* null when not a number.                                                 *)
(***************************************************************************)
EmptyMap == [k \in {} |-> 0]

EmptyIndex ==
    [embeddingsPacked |-> Null, verseIndices |-> Null,
     verseIndexToRow |-> EmptyMap, embeddingSize |-> 0]

JsonContentTypes == {"application/json", "application/json; charset=utf-8"}

RECURSIVE Flatten(_)
Flatten(rows) ==
    IF Len(rows) = 0 THEN <<>> ELSE Head(rows) \o Flatten(Tail(rows))

MaxOf(S) == CHOOSE x \in S : \A y \in S : y <= x

\* Lines 81-92: the items of the right length, packed row by row; the Map
\* is keyed by the number read from the file, the Int32Array holds it
\* converted.
PackItems(rawItems, size) ==
    LET validItems == SelectSeq(rawItems, LAMBDA item : Len(Val(item).embedding[1]) = size)
        itemCount == Len(validItems)
        keys == {Val(validItems[i]).verseIndex[1] : i \in 1..itemCount}
    IN  [embeddingsPacked |->
             Some(Flatten([i \in 1..itemCount |-> Val(validItems[i]).embedding[1]])),
         verseIndices |->
             Some([i \in 1..itemCount |-> ToInt32(Val(validItems[i]).verseIndex[1])]),
         verseIndexToRow |->
             [k \in keys |->
                 MaxOf({i - 1 : i \in {j \in 1..itemCount :
                                          Val(validItems[j]).verseIndex[1] = k}})],
         embeddingSize |-> size]

\* The outcome of _loadEmbeddings on index fields idx: whether it threw,
\* the error's code ("" when the error carries none) and the fields after.
_loadEmbeddings(idx, response) ==
    IF response.rejects
    THEN [threw |-> TRUE, code |-> "", idx |-> idx]
    ELSE IF ~(response.status \in 200..299)
    THEN [threw |-> TRUE,
          code |-> IF response.status = 404 THEN "missing" ELSE "fetch_failed",
          idx |-> idx]
    ELSE IF response.contentType \notin JsonContentTypes
    THEN [threw |-> TRUE, code |-> "invalid_format", idx |-> idx]
    ELSE IF ~response.parses
    THEN [threw |-> TRUE, code |-> "", idx |-> idx]
    ELSE IF IsNull(response.data) \/ IsNull(Val(response.data).items)
    THEN [threw |-> TRUE, code |-> "invalid_format", idx |-> idx]
    ELSE
    LET data == Val(response.data)
        items == Val(data.items)
    IN  IF \E i \in 1..Len(items) : IsNull(items[i])
        THEN [threw |-> TRUE, code |-> "", idx |-> idx]
        ELSE
        LET rawItems == SelectSeq(items, LAMBDA item :
                            ~IsNull(Val(item).embedding) /\ ~IsNull(Val(item).verseIndex))
            inferredSize == IF Len(rawItems) > 0
                            THEN Len(Val(rawItems[1]).embedding[1]) ELSE 0
            size == IF data.embeddingSize # 0 THEN data.embeddingSize ELSE inferredSize
        IN  IF size <= 0
            THEN [threw |-> TRUE, code |-> "invalid_format",
                  idx |-> [idx EXCEPT !.embeddingSize = size]]
            ELSE [threw |-> FALSE, code |-> "", idx |-> PackItems(rawItems, size)]

\* A well-formed embeddings.json with these items.
OkResponse(size, items) ==
    [rejects |-> FALSE, status |-> 200, contentType |-> "application/json",
     parses |-> TRUE, data |-> Some([embeddingSize |-> size, items |-> Some(items)])]

FileItem(verseIndex, embedding) ==
    Some([embedding |-> Some(embedding), verseIndex |-> Some(verseIndex)])

(***************************************************************************)
(* workers/semanticSearchWorker.js: the module state and the 'init'        *)
(* message, which views the transferred buffers and rebuilds the Map from  *)
(* the Int32Array.                                                         *)
(***************************************************************************)
WorkerEmpty ==
    [embeddingsPacked |-> Null, verseIndices |-> Null,
     embeddingSize |-> 0, verseIndexToRow |-> EmptyMap]

workerInit(embeddingsBuffer, verseIndicesBuffer, size) ==
    LET n == Len(verseIndicesBuffer)
        keys == {verseIndicesBuffer[i] : i \in 1..n}
    IN  [embeddingsPacked |-> Some(embeddingsBuffer),
         verseIndices |-> Some(verseIndicesBuffer),
         embeddingSize |-> size,
         verseIndexToRow |->
             [k \in keys |->
                 MaxOf({i - 1 : i \in {j \in 1..n : verseIndicesBuffer[j] = k}})]]

(***************************************************************************)
(* SpecHeap: any sequence of heapPush and heapReplaceRoot calls from an    *)
(* empty heap, made on the index's heap and on the worker's.               *)
(***************************************************************************)
HeapIdle == heap = <<>> /\ wHeap = <<>> /\ heapLast = "none"

SearchIdle == sIndex = EmptyIndex /\ sWorker = WorkerEmpty /\ sLast = [op |-> "none"]

WrapIdle ==
    /\ verses = <<>> /\ lineWidth = 0 /\ lines = <<>> /\ verseStartLines = <<>>
    /\ batchStart = 0 /\ wrapPc = "idle"

IndexIdle ==
    /\ searchIndex = EmptyIndex /\ extractor = Null /\ worker = FALSE
    /\ workerReady = FALSE /\ workerReadyPromise = "none" /\ pendingRequests = {}
    /\ nextRequestId = 1 /\ workerSupported = FALSE /\ wk = WorkerEmpty
    /\ inbox = <<>> /\ outbox = <<>> /\ initPc = <<>> /\ originalFetch = <<>>
    /\ globalFetch = <<>> /\ transformers = FALSE
    /\ calls = <<>> /\ delivered = {}

LoadIdle == loadResponse = <<>> /\ loadOut = <<>>

MatchIdle ==
    /\ smLines = <<>> /\ searchMatches = <<>> /\ matchesByLine = <<>>
    /\ searchResultCount = 0 /\ currentMatchIndex = -1 /\ smLast = <<>>
    /\ smVisited = <<>> /\ smStart = -1

LayoutIdle ==
    /\ lyLines = <<>>
    /\ lySingle = FALSE
    /\ lyMarkers = <<>>
    /\ lyVerseStart = <<>>
    /\ layout = <<>>
    /\ lineToBook = <<>>
    /\ bookRegions = <<>>

ViewIdle ==
    /\ vScreen = <<>>
    /\ initialZoom = 0
    /\ zoom = 0
    /\ offsetX = 0
    /\ offsetY = 0
    /\ container = <<>>
    /\ viewMatches = <<>>
    /\ viewMatchIndex = 0
    /\ vInit = <<>>
    /\ vLast = <<>>
    /\ vOps = 0

ParseIdle ==
    /\ rawText = <<>>
    /\ filterBookIndex = 0
    /\ parsed = <<>>
    /\ loadedText = <<>>

RenderIdle ==
    /\ rdLines = <<>> /\ rdLayout = <<>> /\ sprites = <<>> /\ textSprites = <<>>
    /\ spritePool = <<>> /\ graphics = <<>> /\ highlightSprites = <<>>
    /\ highlightGraphics = <<>> /\ rdLast = <<>>

TickerIdle ==
    /\ tkScreen = <<>> /\ tkView = <<>> /\ frameCount = 0 /\ lastViewportHash = <<>>
    /\ tkRendered = <<>> /\ tkInputs = 0

ControlsIdle ==
    /\ scControls = <<>> /\ scVisualization = <<>> /\ scEvent = <<>> /\ scActions = 0

ViewportIdle ==
    /\ viewportManager = <<>> /\ vmCalls = <<>>

BackgroundIdle ==
    /\ backgroundGraphics = <<>> /\ bgPass = <<>>

RestIdle == LoadIdle /\ MatchIdle /\ LayoutIdle /\ ViewIdle /\ ParseIdle /\ RenderIdle /\ TickerIdle /\ ControlsIdle /\ ViewportIdle /\ BackgroundIdle

NotLoadIdle == HeapIdle /\ SearchIdle /\ WrapIdle /\ IndexIdle /\ MatchIdle /\ LayoutIdle /\ ViewIdle /\ ParseIdle /\ RenderIdle /\ TickerIdle /\ ControlsIdle /\ ViewportIdle /\ BackgroundIdle

NotMatchIdle == HeapIdle /\ SearchIdle /\ WrapIdle /\ IndexIdle /\ LoadIdle /\ LayoutIdle /\ ViewIdle /\ ParseIdle /\ RenderIdle /\ TickerIdle /\ ControlsIdle /\ ViewportIdle /\ BackgroundIdle

NotLayoutIdle == HeapIdle /\ SearchIdle /\ WrapIdle /\ IndexIdle /\ LoadIdle /\ MatchIdle /\ ViewIdle /\ ParseIdle /\ RenderIdle /\ TickerIdle /\ ControlsIdle /\ ViewportIdle /\ BackgroundIdle

NotViewIdle == HeapIdle /\ SearchIdle /\ WrapIdle /\ IndexIdle /\ LoadIdle /\ MatchIdle /\ LayoutIdle /\ ParseIdle /\ RenderIdle /\ TickerIdle /\ ControlsIdle /\ ViewportIdle /\ BackgroundIdle

NotParseIdle == HeapIdle /\ SearchIdle /\ WrapIdle /\ IndexIdle /\ LoadIdle /\ MatchIdle /\ LayoutIdle /\ ViewIdle /\ RenderIdle /\ TickerIdle /\ ControlsIdle /\ ViewportIdle /\ BackgroundIdle

NotRenderIdle == HeapIdle /\ SearchIdle /\ WrapIdle /\ IndexIdle /\ LoadIdle /\ MatchIdle /\ LayoutIdle /\ ViewIdle /\ ParseIdle /\ TickerIdle /\ ControlsIdle /\ ViewportIdle /\ BackgroundIdle

NotTickerIdle == HeapIdle /\ SearchIdle /\ WrapIdle /\ IndexIdle /\ LoadIdle /\ MatchIdle /\ LayoutIdle /\ ViewIdle /\ ParseIdle /\ RenderIdle /\ ControlsIdle /\ ViewportIdle /\ BackgroundIdle

NotControlsIdle == HeapIdle /\ SearchIdle /\ WrapIdle /\ IndexIdle /\ LoadIdle /\ MatchIdle /\ LayoutIdle /\ ViewIdle /\ ParseIdle /\ RenderIdle /\ TickerIdle /\ ViewportIdle /\ BackgroundIdle

NotViewportIdle == HeapIdle /\ SearchIdle /\ WrapIdle /\ IndexIdle /\ LoadIdle /\ MatchIdle /\ LayoutIdle /\ ViewIdle /\ ParseIdle /\ RenderIdle /\ TickerIdle /\ ControlsIdle /\ BackgroundIdle

NotBackgroundIdle == HeapIdle /\ SearchIdle /\ WrapIdle /\ IndexIdle /\ LoadIdle /\ MatchIdle /\ LayoutIdle /\ ViewIdle /\ ParseIdle /\ RenderIdle /\ TickerIdle /\ ControlsIdle /\ ViewportIdle

HeapInit == HeapIdle /\ SearchIdle /\ WrapIdle /\ IndexIdle /\ RestIdle

HeapPushCall ==
    /\ Len(heap) < MaxHeapLen
    /\ \E s \in 0..MaxScore :
          /\ heap' = heapPush(heap, Item(Len(heap) * Unit, s))
          /\ wHeap' = workerHeapPush(wHeap, Item(Len(wHeap) * Unit, s))
    /\ heapLast' = "heapPush"
    /\ UNCHANGED <<searchVars, wrapVars, indexVars, restVars>>

HeapReplaceRootCall ==
    /\ \E s \in 0..MaxScore :
          /\ heap' = heapReplaceRoot(heap, Item(0, s))
          /\ wHeap' = workerHeapReplaceRoot(wHeap, Item(0, s))
    /\ heapLast' = "heapReplaceRoot"
    /\ UNCHANGED <<searchVars, wrapVars, indexVars, restVars>>

HeapNext == HeapPushCall \/ HeapReplaceRootCall

SpecHeap == HeapInit /\ [][HeapNext]_vars

(***************************************************************************)
(* SpecSearch: an embeddings file is loaded into an in-process index and   *)
(* the same packed buffers are given to a worker; every search call is     *)
(* made on both.                                                           *)
(***************************************************************************)
\* Verse numbers of the file: 1, a number between 1 and 2, and 2.
VerseNums == {Unit, Unit + 1, 2 * Unit}

Vectors == {<<1, 0>>, <<0, 1>>, <<1, 1>>}

Queries == {<<1, 1>>, <<1, 2>>}

FileItems == {FileItem(v, e) : v \in VerseNums, e \in Vectors}

FileItemLists == UNION {[1..n -> FileItems] : n \in 1..MaxRows}

TopKs == {Null} \cup {Some(k) : k \in 0..MaxRows}

MinScores == {Null, Some(1), Some(2)}

SearchInit ==
    /\ HeapIdle
    /\ WrapIdle
    /\ IndexIdle
    /\ RestIdle
    /\ \E items \in FileItemLists :
          LET loaded == _loadEmbeddings(EmptyIndex, OkResponse(0, items)).idx
          IN  /\ sIndex = loaded
              /\ sWorker = workerInit(Val(loaded.embeddingsPacked),
                                      Val(loaded.verseIndices), loaded.embeddingSize)
    /\ sLast = [op |-> "none"]

\* search(queryEmbedding, topK), run by the fallback and by the worker.
SearchCall ==
    /\ sLast.op = "none"
    /\ \E q \in Queries, topK \in TopKs :
          sLast' = [op |-> "search", queryEmbedding |-> q, topK |-> topK,
                    fallback |-> _searchPacked(sIndex, q, topK),
                    worker |-> searchPacked(sWorker, q, topK)]
    /\ UNCHANGED <<sIndex, sWorker, heapVars, wrapVars, indexVars, restVars>>

\* searchByVerseIndex(verseIndex, topK, minScore), run by both.
SearchByVerseIndexCall ==
    /\ sLast.op = "none"
    /\ \E v \in VerseNums, topK \in TopKs, minScore \in MinScores :
          sLast' = [op |-> "searchByVerseIndex", verseIndex |-> v, topK |-> topK,
                    minScore |-> minScore,
                    fallback |-> _searchByVerseIndexPacked(sIndex, v, topK, minScore),
                    worker |-> searchByVerseIndexPacked(sWorker, v, topK, minScore)]
    /\ UNCHANGED <<sIndex, sWorker, heapVars, wrapVars, indexVars, restVars>>

\* The caller takes the result; the next call can be made.
SearchReturn ==
    /\ sLast.op # "none"
    /\ sLast' = [op |-> "none"]
    /\ UNCHANGED <<sIndex, sWorker, heapVars, wrapVars, indexVars, restVars>>

SearchNext == SearchCall \/ SearchByVerseIndexCall \/ SearchReturn

SpecSearch == SearchInit /\ [][SearchNext]_vars

(***************************************************************************)
(* C7: after any sequence of heapPush and heapReplaceRoot calls from an    *)
(* empty heap, no member of the heap has a score below the root's, in the  *)
(* index's heap and in the worker's.                                       *)
(***************************************************************************)
RootIsMin(h) == \A i \in 1..Len(h) : h[1].score <= h[i].score

C7_HeapRootIsMinimum == RootIsMin(heap) /\ RootIsMin(wHeap)

\* A full heap with different scores in it, right after a heapReplaceRoot
\* that had to sift the new root down.
C7_Witness ==
    /\ heapLast = "heapReplaceRoot"
    /\ Len(heap) = MaxHeapLen
    /\ heap[1].verseIndex # 0
    /\ \E i \in 1..Len(heap) : heap[i].verseIndex = 0 /\ heap[i].score > heap[1].score
    /\ wHeap = heap

(***************************************************************************)
(* C1: the bounded-heap search against the exhaustive search.              *)
(***************************************************************************)
\* Scoring all N rows, sorting them by descending score, taking the first k.
ExhaustiveTopK(k) ==
    SubSeq(_searchPacked(sIndex, sLast.queryEmbedding, Null), 1, k)

Range(s) == {s[i] : i \in 1..Len(s)}

Scores(s) == [i \in 1..Len(s) |-> s[i].score]

Count(s, e) == Cardinality({i \in 1..Len(s) : s[i] = e})

RowCount == Len(Val(sIndex.verseIndices))

BoundedSearchDone ==
    /\ sLast.op = "search"
    /\ ~IsNull(sLast.topK)
    /\ Val(sLast.topK) >= 1
    /\ Val(sLast.topK) <= RowCount

\* The k-th and the (k+1)-th score of the exhaustive order differ (or k = N).
NoTieAcrossCut(k) ==
    LET all == _searchPacked(sIndex, sLast.queryEmbedding, Null)
    IN  k = Len(all) \/ all[k].score > all[k + 1].score

\* C1 as claimed: for 1 <= k <= N the bounded search returns the same set of
\* {verseIndex, score} entries as the first k of the exhaustive order.
C1_SameSetAsExhaustive ==
    BoundedSearchDone =>
        /\ Range(sLast.fallback) = Range(ExhaustiveTopK(Val(sLast.topK)))
        /\ Range(sLast.worker) = Range(ExhaustiveTopK(Val(sLast.topK)))

\* C1 amended: for 1 <= k <= N the bounded search returns k entries of
\* distinct rows whose scores are the k highest of the exhaustive order, and
\* the same set of entries as the first k of the exhaustive order whenever no
\* tie spans the cut between the k-th and the (k+1)-th score.
TopKOfExhaustive(res, k) ==
    LET all == _searchPacked(sIndex, sLast.queryEmbedding, Null)
    IN  /\ Len(res) = k
        /\ Scores(res) = Scores(SubSeq(all, 1, k))
        /\ \A i \in 1..Len(res) : Count(res, res[i]) <= Count(all, res[i])
        /\ NoTieAcrossCut(k) => Range(res) = Range(SubSeq(all, 1, k))

C1_SameScoresAsExhaustive ==
    BoundedSearchDone =>
        /\ TopKOfExhaustive(sLast.fallback, Val(sLast.topK))
        /\ TopKOfExhaustive(sLast.worker, Val(sLast.topK))

\* A bounded search with 1 < k < N over rows with tied and untied scores.
C1_Witness ==
    /\ BoundedSearchDone
    /\ Val(sLast.topK) > 1
    /\ Val(sLast.topK) < RowCount
    /\ NoTieAcrossCut(Val(sLast.topK))
    /\ sLast.fallback[1].score > sLast.fallback[2].score
    /\ Range(sLast.fallback) = Range(ExhaustiveTopK(Val(sLast.topK)))

(***************************************************************************)
(* C4: for the same packed buffers, embedding size, query vector or verse  *)
(* index, topK and minScore, the in-process fallback and the worker return *)
(* identical result lists.                                                 *)
(***************************************************************************)
C4_FallbackEqualsWorker ==
    sLast.op # "none" => sLast.fallback = sLast.worker

(***************************************************************************)
(* Text layout: wrapVerses. A string is a sequence of one-character        *)
(* strings.                                                                *)
(***************************************************************************)
Chars == {"a", " "}

\* What \s of VISUALIZATION_CONFIG.wordSplitRegex (/\s+/) matches.
IsSpace(c) == c \in {" ", "\t", "\n", "\r"}

\* String.prototype.split(/\s+/): the pieces between maximal runs of white
\* space; white space at either end leaves an empty piece there.
RECURSIVE SplitWords(_)
SplitWords(str) ==
    LET spaces == {i \in 1..Len(str) : IsSpace(str[i])}
    IN  IF spaces = {} THEN <<str>>
        ELSE LET first == CHOOSE i \in spaces : \A j \in spaces : i <= j
                 last == CHOOSE j \in first..Len(str) :
                            /\ \A m \in first..j : IsSpace(str[m])
                            /\ (j = Len(str) \/ ~IsSpace(str[j + 1]))
             IN  <<SubSeq(str, 1, first - 1)>>
                     \o SplitWords(SubSeq(str, last + 1, Len(str)))

\* A loop body that forgets the joining space when it measures the line.
WordStepNoSpace(st, word, width) ==
    LET wordLen == Len(word)
        newLen == st.currentLen + wordLen
    IN  IF newLen > width /\ st.currentLen > 0
        THEN [lines |-> Append(st.lines, st.currentLine),
              currentLine |-> word, currentLen |-> wordLen]
        ELSE [lines |-> st.lines,
              currentLine |-> IF st.currentLen = 0 THEN word
                              ELSE st.currentLine \o <<" ">> \o word,
              currentLen |-> IF st.currentLen = 0 THEN wordLen ELSE newLen + 1]

\* The body of the loop over words (lines 277-289) on
\* st = [lines, currentLine, currentLen].
WordStep(st, word, width) ==
    LET wordLen == Len(word)
        newLen == IF st.currentLen = 0 THEN wordLen ELSE st.currentLen + 1 + wordLen
    IN  IF newLen > width /\ st.currentLen > 0
        THEN [lines |-> Append(st.lines, st.currentLine),
              currentLine |-> word, currentLen |-> wordLen]
        ELSE [lines |-> st.lines,
              currentLine |-> IF st.currentLen = 0 THEN word
                              ELSE st.currentLine \o <<" ">> \o word,
              currentLen |-> newLen]

\* A wrap that forgets the line still open when the words run out.
WrapVerseDropTail(verse, width) ==
    IF Len(verse) = 0 THEN <<>>
    ELSE IF Len(verse) <= width THEN <<verse>>
    ELSE
    LET words == SplitWords(verse)
        st[w \in 0..Len(words)] ==
            IF w = 0 THEN [lines |-> <<>>, currentLine |-> <<>>, currentLen |-> 0]
            ELSE WordStep(st[w - 1], words[w], width)
    IN  st[Len(words)].lines

\* The lines one verse adds (lines 260-294).
WrapVerse(verse, width) ==
    IF Len(verse) = 0 THEN <<>>
    ELSE IF Len(verse) <= width THEN <<verse>>
    ELSE
    LET words == SplitWords(verse)
        st[w \in 0..Len(words)] ==
            IF w = 0 THEN [lines |-> <<>>, currentLine |-> <<>>, currentLen |-> 0]
            ELSE WordStep(st[w - 1], words[w], width)
        end == st[Len(words)]
    IN  IF end.currentLen > 0 THEN Append(end.lines, end.currentLine) ELSE end.lines

\* An inner loop that records a start line only for the verses that add lines.
RECURSIVE WrapRangeSkipEmpty(_, _, _)
WrapRangeSkipEmpty(acc, v, batchEnd) ==
    IF v >= batchEnd THEN acc
    ELSE WrapRangeSkipEmpty(
             [lines |-> acc.lines \o WrapVerse(verses[v + 1], lineWidth),
              verseStartLines |->
                  IF Len(verses[v + 1]) = 0 THEN acc.verseStartLines
                  ELSE Append(acc.verseStartLines, Len(acc.lines))],
             v + 1, batchEnd)

\* The inner loop over the verses v of one batch (lines 255-295) on
\* acc = [lines, verseStartLines].
RECURSIVE WrapRange(_, _, _)
WrapRange(acc, v, batchEnd) ==
    IF v >= batchEnd THEN acc
    ELSE WrapRange(
             [lines |-> acc.lines \o WrapVerse(verses[v + 1], lineWidth),
              verseStartLines |-> Append(acc.verseStartLines, Len(acc.lines))],
             v + 1, batchEnd)

Min(a, b) == IF a <= b THEN a ELSE b

(***************************************************************************)
(* SpecWrap: one call of wrapVerses, batch by batch.                       *)
(***************************************************************************)
Strings(len) == [1..len -> Chars]

\* The verse arrays of at most n verses and at most chars characters in all.
RECURSIVE VerseLists(_, _)
VerseLists(n, chars) ==
    IF n = 0 THEN {<<>>}
    ELSE {<<>>} \cup
         UNION {{<<str>> \o rest : str \in Strings(len),
                                   rest \in VerseLists(n - 1, chars - len)} :
                len \in 0..chars}

WrapInit ==
    /\ HeapIdle
    /\ SearchIdle
    /\ IndexIdle
    /\ RestIdle
    /\ verses \in VerseLists(MaxVerses, MaxChars)
    /\ lineWidth \in 1..MaxLineWidth
    /\ lines = <<>>
    /\ verseStartLines = <<>>
    /\ batchStart = 0
    /\ wrapPc = "loop"

\* One pass of the outer loop, up to the await that ends it.
WrapBatch ==
    /\ wrapPc = "loop"
    /\ batchStart < Len(verses)
    /\ LET batchEnd == Min(batchStart + BatchSize, Len(verses))
           done == WrapRange([lines |-> lines, verseStartLines |-> verseStartLines],
                             batchStart, batchEnd)
       IN  /\ lines' = done.lines
           /\ verseStartLines' = done.verseStartLines
    /\ batchStart' = batchStart + BatchSize
    /\ UNCHANGED <<verses, lineWidth, wrapPc, heapVars, searchVars, indexVars, restVars>>

\* The outer loop ends: return { lines, verseStartLines }.
WrapReturn ==
    /\ wrapPc = "loop"
    /\ batchStart >= Len(verses)
    /\ wrapPc' = "returned"
    /\ UNCHANGED <<verses, lineWidth, lines, verseStartLines, batchStart,
                   heapVars, searchVars, indexVars, restVars>>

WrapNext == WrapBatch \/ WrapReturn

SpecWrap == WrapInit /\ [][WrapNext]_vars

(***************************************************************************)
(* The lines of a verse, as verseStartLines delimits them: verse i (from   *)
(* 0) owns the lines verseStartLines[i] .. verseStartLines[i+1] - 1, the   *)
(* last verse wrapped so far up to lines.length - 1.                       *)
(***************************************************************************)
VersesWrapped == Len(verseStartLines)

VerseLines(i) ==
    LET from == verseStartLines[i + 1]
        to == IF i + 1 < Len(verseStartLines)
              THEN verseStartLines[i + 2] - 1 ELSE Len(lines) - 1
    IN  SubSeq(lines, from + 1, to + 1)

RECURSIVE JoinWithSpaces(_)
JoinWithSpaces(ls) ==
    IF Len(ls) = 0 THEN <<>>
    ELSE IF Len(ls) = 1 THEN ls[1]
    ELSE ls[1] \o <<" ">> \o JoinWithSpaces(Tail(ls))

\* Words separated by exactly one space character, no white space at
\* either end.
SingleSpaced(str) ==
    /\ \A i \in 1..Len(str) : IsSpace(str[i]) => str[i] = " "
    /\ \A i \in 1..Len(str) : IsSpace(str[i]) =>
          /\ i > 1 /\ i < Len(str)
          /\ ~IsSpace(str[i + 1])

(***************************************************************************)
(* C8 as claimed: for every verse and every lineWidth > 0, joining the     *)
(* lines wrapVerses emitted for the verse with single spaces gives back    *)
(* the verse text exactly.                                                 *)
(***************************************************************************)
C8_JoinGivesVerse ==
    \A i \in 0..(VersesWrapped - 1) : JoinWithSpaces(VerseLines(i)) = verses[i + 1]

\* C8 amended: joining the lines of a verse with single spaces gives back
\* the verse text exactly for every verse that is no longer than lineWidth,
\* and for every longer verse whose words are separated by exactly one space
\* character and that has no white space at either end.
C8_JoinGivesSingleSpacedVerse ==
    \A i \in 0..(VersesWrapped - 1) :
        (Len(verses[i + 1]) <= lineWidth \/ SingleSpaced(verses[i + 1]))
            => JoinWithSpaces(VerseLines(i)) = verses[i + 1]

\* A verse longer than lineWidth was wrapped into several lines, one of them
\* holding two words, and the lines join back to it.
C8_Witness ==
    /\ wrapPc = "returned"
    /\ \E i \in 0..(VersesWrapped - 1) :
          /\ Len(verses[i + 1]) > lineWidth
          /\ SingleSpaced(verses[i + 1])
          /\ Len(VerseLines(i)) >= 2
          /\ \E l \in 1..Len(VerseLines(i)) : " " \in {VerseLines(i)[l][c] : c \in 1..Len(VerseLines(i)[l])}
          /\ JoinWithSpaces(VerseLines(i)) = verses[i + 1]

(***************************************************************************)
(* C9: every line wrapVerses emits has length at most lineWidth, except a  *)
(* line that is one single word of its verse longer than lineWidth,        *)
(* emitted alone and unsplit.                                              *)
(***************************************************************************)
LineOk(line, verse) ==
    \/ Len(line) <= lineWidth
    \/ /\ \A c \in 1..Len(line) : ~IsSpace(line[c])
       /\ \E w \in 1..Len(SplitWords(verse)) : SplitWords(verse)[w] = line

C9_LinesFitOrSingleWord ==
    \A i \in 0..(VersesWrapped - 1) :
        \A l \in 1..Len(VerseLines(i)) : LineOk(VerseLines(i)[l], verses[i + 1])

\* A wrapped verse with a word longer than lineWidth on a line of its own
\* next to a line that fits.
C9_Witness ==
    /\ wrapPc = "returned"
    /\ \E i \in 0..(VersesWrapped - 1) :
          /\ \E l \in 1..Len(VerseLines(i)) : Len(VerseLines(i)[l]) > lineWidth
          /\ \E l \in 1..Len(VerseLines(i)) : Len(VerseLines(i)[l]) <= lineWidth

(***************************************************************************)
(* C10: verseStartLines has exactly one entry per verse (empty verses      *)
(* included), the entries are non-decreasing, and the lines from           *)
(* verseStartLines[i] to verseStartLines[i+1] - 1 (to lines.length - 1 for *)
(* the last verse) are exactly the lines produced from verse i.            *)
(***************************************************************************)
C10_VerseStartLines ==
    /\ VersesWrapped = Min(batchStart, Len(verses))
    /\ wrapPc = "returned" => VersesWrapped = Len(verses)
    /\ \A i \in 1..(VersesWrapped - 1) : verseStartLines[i] <= verseStartLines[i + 1]
    /\ \A i \in 1..VersesWrapped : verseStartLines[i] \in 0..Len(lines)
    /\ \A i \in 0..(VersesWrapped - 1) : VerseLines(i) = WrapVerse(verses[i + 1], lineWidth)

\* A finished run over several batches with an empty verse between two
\* others, the last one wrapped into several lines.
C10_Witness ==
    /\ wrapPc = "returned"
    /\ Len(verses) = MaxVerses
    /\ Len(verses) > BatchSize
    /\ Len(verses[2]) = 0
    /\ Len(VerseLines(0)) = 1
    /\ Len(VerseLines(1)) = 0
    /\ Len(VerseLines(Len(verses) - 1)) >= 2

(***************************************************************************)
(* Spec: one SemanticSearchIndex in a browser. init() is called up to      *)
(* MaxInits times, the calls overlapping freely; search and                *)
(* searchByVerseIndex are called up to MaxCalls times at any moment; the   *)
(* worker and the index handle each other's messages in the order posted.  *)
(***************************************************************************)
InitCalls == 1..MaxInits

\* embeddings.json as served, and a server without it.
ServedItems == <<FileItem(Unit, <<1, 0>>), FileItem(2 * Unit, <<1, 1>>)>>

NotFoundResponse ==
    [rejects |-> FALSE, status |-> 404, contentType |-> "text/html",
     parses |-> FALSE, data |-> Null]

Responses == {OkResponse(0, ServedItems), NotFoundResponse}

\* Query arrays by their buffer: a Float32Array of two numbers, and a typed
\* array of three bytes, which no Float32Array can view.
Float32Query == [byteLength |-> 8, data |-> <<1, 2>>]

ByteQuery == [byteLength |-> 3, data |-> <<1, 1, 1>>]

SearchArgs ==
    {[op |-> "search", queryEmbedding |-> q, verseIndex |-> 0,
      topK |-> Some(1), minScore |-> Null] : q \in {Float32Query, ByteQuery}}
    \cup
    {[op |-> "searchByVerseIndex", queryEmbedding |-> Float32Query,
      verseIndex |-> Unit, topK |-> Null, minScore |-> Null]}

\* The values globalThis.fetch takes.
NativeFetch == <<"native", 0>>

Interceptor(c) == <<"interceptor", c>>

IndexInit ==
    /\ HeapIdle
    /\ SearchIdle
    /\ WrapIdle
    /\ RestIdle
    /\ searchIndex = EmptyIndex
    /\ extractor = Null
    /\ worker = FALSE
    /\ workerReady = FALSE
    /\ workerReadyPromise = "none"
    /\ pendingRequests = {}
    /\ nextRequestId = 1
    /\ workerSupported \in BOOLEAN
    /\ wk = WorkerEmpty
    /\ inbox = <<>>
    /\ outbox = <<>>
    /\ initPc = [c \in InitCalls |-> "idle"]
    /\ originalFetch = [c \in InitCalls |-> NativeFetch]
    /\ globalFetch = NativeFetch
    /\ transformers = FALSE
    /\ calls = <<>>
    /\ delivered = {}

notIndexVars == <<heapVars, searchVars, wrapVars, restVars>>

\* _loadModel up to its first await that has to wait, for init call c: it
\* returns at once when the extractor is set, else it keeps
\* globalThis.fetch, awaits loadTransformers() and, when that has nothing
\* to import, installs its interceptor and calls pipelineFn.
EnterLoadModel(c) ==
    IF ~IsNull(extractor)
    THEN /\ initPc' = [initPc EXCEPT ![c] = "done"]
         /\ UNCHANGED <<originalFetch, globalFetch>>
    ELSE IF ~transformers
    THEN /\ initPc' = [initPc EXCEPT ![c] = "loadTransformers"]
         /\ originalFetch' = [originalFetch EXCEPT ![c] = globalFetch]
         /\ UNCHANGED <<globalFetch>>
    ELSE /\ initPc' = [initPc EXCEPT ![c] = "pipeline"]
         /\ originalFetch' = [originalFetch EXCEPT ![c] = globalFetch]
         /\ globalFetch' = Interceptor(c)

\* init() is called: it awaits fetch(embeddingsUrl).
InitStart(c) ==
    /\ initPc[c] = "idle"
    /\ \A d \in 1..c - 1 : initPc[d] # "idle"
    /\ initPc' = [initPc EXCEPT ![c] = "fetch"]
    /\ UNCHANGED <<searchIndex, extractor, worker, workerReady, workerReadyPromise,
                   pendingRequests, nextRequestId, workerSupported, wk, inbox,
                   outbox, originalFetch, globalFetch, transformers, calls, delivered, notIndexVars>>

\* The response is there: the rest of _loadEmbeddings, then _loadWorker up
\* to its await (or its early return) and, without a worker to wait for,
\* the start of _loadModel.
LoadEmbeddingsSettles(c) ==
    /\ initPc[c] = "fetch"
    /\ \E response \in Responses :
          LET out == _loadEmbeddings(searchIndex, response)
          IN  IF out.threw
              THEN /\ searchIndex' = out.idx
                   /\ initPc' = [initPc EXCEPT ![c] = "failed"]
                   /\ UNCHANGED <<worker, workerReady, workerReadyPromise, inbox,
                                  originalFetch, globalFetch>>
              ELSE IF workerSupported /\ ~worker
              THEN /\ worker' = TRUE
                   /\ workerReady' = FALSE
                   /\ workerReadyPromise' = "pending"
                   /\ inbox' = Append(inbox,
                          [type |-> "init",
                           embeddingsBuffer |-> Val(out.idx.embeddingsPacked),
                           verseIndicesBuffer |-> Val(out.idx.verseIndices),
                           size |-> out.idx.embeddingSize])
                   /\ searchIndex' = [out.idx EXCEPT !.embeddingsPacked = Null,
                                                     !.verseIndices = Null,
                                                     !.verseIndexToRow = EmptyMap]
                   /\ initPc' = [initPc EXCEPT ![c] = "awaitReady"]
                   /\ UNCHANGED <<originalFetch, globalFetch>>
              ELSE /\ searchIndex' = out.idx
                   /\ EnterLoadModel(c)
                   /\ UNCHANGED <<worker, workerReady, workerReadyPromise, inbox>>
    /\ UNCHANGED <<extractor, pendingRequests, nextRequestId, workerSupported, wk,
                   outbox, transformers, calls, delivered,
                   notIndexVars>>

\* loadTransformers() settles: the imports are in (then the interceptor is
\* installed and pipelineFn called) or one of them failed.
LoadTransformersSettles(c) ==
    /\ initPc[c] = "loadTransformers"
    /\ \E ok \in BOOLEAN :
          IF ok
          THEN /\ transformers' = TRUE
               /\ globalFetch' = Interceptor(c)
               /\ initPc' = [initPc EXCEPT ![c] = "pipeline"]
          ELSE /\ initPc' = [initPc EXCEPT ![c] = "failed"]
               /\ UNCHANGED <<transformers, globalFetch>>
    /\ UNCHANGED <<searchIndex, extractor, worker, workerReady, workerReadyPromise,
                   pendingRequests, nextRequestId, workerSupported, wk, inbox,
                   outbox, originalFetch, calls, delivered,
                   notIndexVars>>

\* pipelineFn settles: the extractor is set, or the load failed; either way
\* globalThis.fetch is set back to the originalFetch of this call.
PipelineSettles(c) ==
    /\ initPc[c] = "pipeline"
    /\ globalFetch' = originalFetch[c]
    /\ \E ok \in BOOLEAN :
          IF ok
          THEN /\ extractor' = Some("extractor")
               /\ initPc' = [initPc EXCEPT ![c] = "done"]
          ELSE /\ initPc' = [initPc EXCEPT ![c] = "failed"]
               /\ UNCHANGED extractor
    /\ UNCHANGED <<searchIndex, worker, workerReady, workerReadyPromise,
                   pendingRequests, nextRequestId, workerSupported, wk, inbox,
                   outbox, originalFetch, transformers, calls,
                   delivered, notIndexVars>>

\* What a search call has come to: args as passed, the requestId it was
\* given (Null when answered without the worker), and its promise.
CallRecord(args, requestId, status, results, settles) ==
    [args |-> args, requestId |-> requestId, status |-> status,
     results |-> results, settles |-> settles]

\* _requestWorker with the worker ready: the next id, the pending entry and
\* the message, the query passed as its buffer.
_requestWorker(type, args) ==
    LET requestId == nextRequestId
    IN  /\ nextRequestId' = nextRequestId + 1
        /\ pendingRequests' = pendingRequests \cup {requestId}
        /\ inbox' = Append(inbox,
               [type |-> type, requestId |-> Some(requestId),
                queryEmbeddingBuffer |-> args.queryEmbedding,
                verseIndex |-> args.verseIndex, topK |-> args.topK,
                minScore |-> args.minScore])
        /\ calls' = Append(calls,
               CallRecord(args, Some(requestId), "pending", <<>>, 0))

\* A search answered by the index itself settles at once.
AnsweredHere(args, results) ==
    /\ calls' = Append(calls, CallRecord(args, Null, "resolved", results, 1))
    /\ UNCHANGED <<nextRequestId, pendingRequests, inbox>>

search(args) ==
    /\ args.op = "search"
    /\ Len(calls) < MaxCalls
    /\ IF worker /\ workerReady
       THEN _requestWorker("search", args)
       ELSE AnsweredHere(args,
                _searchPacked(searchIndex, args.queryEmbedding.data, args.topK))
    /\ UNCHANGED <<searchIndex, extractor, worker, workerReady, workerReadyPromise,
                   workerSupported, wk, outbox, initPc, originalFetch, globalFetch,
                   transformers, delivered,
                   notIndexVars>>

searchByVerseIndex(args) ==
    /\ args.op = "searchByVerseIndex"
    /\ Len(calls) < MaxCalls
    /\ IF worker /\ workerReady
       THEN _requestWorker("searchByVerseIndex", args)
       ELSE AnsweredHere(args,
                _searchByVerseIndexPacked(searchIndex, args.verseIndex, args.topK,
                                          args.minScore))
    /\ UNCHANGED <<searchIndex, extractor, worker, workerReady, workerReadyPromise,
                   workerSupported, wk, outbox, initPc, originalFetch, globalFetch,
                   transformers, delivered,
                   notIndexVars>>

\* What the worker posts. requestId is Null where the message has no such
\* field; about is no field of the message: it records the request whose
\* handling threw, for the properties to speak of.
Posted(type, requestId, results, about) ==
    [type |-> type, requestId |-> requestId, results |-> results, about |-> about]

\* self.onmessage of the worker: the module state after the message, and
\* what was posted. new Float32Array(buffer) throws a RangeError on a
\* buffer whose byteLength is no multiple of 4, and searchPacked throws on
\* verseIndices being null; the catch posts the error with no requestId.
workerOnMessage(w, data) ==
    IF data.type = "init"
    THEN [wk |-> workerInit(data.embeddingsBuffer, data.verseIndicesBuffer, data.size),
          post |-> Posted("ready", Null, <<>>, Null)]
    ELSE IF data.type = "search"
    THEN IF data.queryEmbeddingBuffer.byteLength % 4 # 0 \/ IsNull(w.verseIndices)
         THEN [wk |-> w, post |-> Posted("error", Null, <<>>, data.requestId)]
         ELSE [wk |-> w,
               post |-> Posted("result", data.requestId,
                               searchPacked(w, data.queryEmbeddingBuffer.data, data.topK),
                               Null)]
    ELSE [wk |-> w,
          post |-> Posted("result", data.requestId,
                          searchByVerseIndexPacked(w, data.verseIndex, data.topK,
                                                   data.minScore),
                          Null)]

\* The worker handles the messages in the order they were posted.
WorkerHandles ==
    /\ inbox # <<>>
    /\ LET out == workerOnMessage(wk, Head(inbox))
       IN  /\ wk' = out.wk
           /\ outbox' = Append(outbox, out.post)
    /\ inbox' = Tail(inbox)
    /\ UNCHANGED <<searchIndex, extractor, worker, workerReady, workerReadyPromise,
                   pendingRequests, nextRequestId, workerSupported, initPc,
                   originalFetch, globalFetch, transformers, calls, delivered, notIndexVars>>

\* pending.resolve / pending.reject of the request r.
Settle(cs, r, status, results) ==
    [k \in 1..Len(cs) |->
        IF cs[k].requestId = Some(r)
        THEN CallRecord(cs[k].args, cs[k].requestId, status, results, cs[k].settles + 1)
        ELSE cs[k]]

\* A variant that resolves the oldest pending request, whatever the id.
onResultOldest(pr, cs, data) ==
    IF pr # {}
    THEN LET r == CHOOSE x \in pr : \A y \in pr : x <= y
         IN  [pendingRequests |-> pr \ {r}, calls |-> Settle(cs, r, "resolved", data.results)]
    ELSE [pendingRequests |-> pr, calls |-> cs]

\* worker.onmessage, type 'result'.
onResult(pr, cs, data) ==
    IF ~IsNull(data.requestId) /\ Val(data.requestId) \in pr
    THEN LET r == Val(data.requestId)
         IN  [pendingRequests |-> pr \ {r}, calls |-> Settle(cs, r, "resolved", data.results)]
    ELSE [pendingRequests |-> pr, calls |-> cs]

\* worker.onmessage, type 'error'; without a pending entry it only logs.
onError(pr, cs, data) ==
    IF ~IsNull(data.requestId) /\ Val(data.requestId) \in pr
    THEN LET r == Val(data.requestId)
         IN  [pendingRequests |-> pr \ {r}, calls |-> Settle(cs, r, "rejected", <<>>)]
    ELSE [pendingRequests |-> pr, calls |-> cs]

RemoveAt(seq, i) == SubSeq(seq, 1, i - 1) \o SubSeq(seq, i + 1, Len(seq))

\* worker.onmessage of the index on the i-th message on its way. The
\* browser delivers them first-posted-first; the handler is run against
\* every order of arrival. 'ready' resolves workerReadyPromise, on which
\* the init call that made the worker goes on into _loadModel.
IndexHandles(i) ==
    /\ i \in 1..Len(outbox)
    /\ LET data == outbox[i]
       IN  /\ delivered' = delivered \cup {data}
           /\ IF data.type = "ready"
              THEN /\ workerReady' = TRUE
                   /\ workerReadyPromise' = "resolved"
                   /\ IF \E c \in InitCalls : initPc[c] = "awaitReady"
                      THEN EnterLoadModel(CHOOSE c \in InitCalls : initPc[c] = "awaitReady")
                      ELSE UNCHANGED <<initPc, originalFetch, globalFetch>>
                   /\ UNCHANGED <<pendingRequests, calls>>
              ELSE /\ LET out == IF data.type = "result"
                                 THEN onResult(pendingRequests, calls, data)
                                 ELSE onError(pendingRequests, calls, data)
                      IN  /\ pendingRequests' = out.pendingRequests
                          /\ calls' = out.calls
                   /\ UNCHANGED <<workerReady, workerReadyPromise, initPc,
                                  originalFetch, globalFetch>>
    /\ outbox' = RemoveAt(outbox, i)
    /\ UNCHANGED <<searchIndex, extractor, worker, nextRequestId, workerSupported,
                   wk, inbox, transformers, notIndexVars>>

Next ==
    \/ \E c \in InitCalls : InitStart(c)
    \/ \E c \in InitCalls : LoadEmbeddingsSettles(c)
    \/ \E c \in InitCalls : LoadTransformersSettles(c)
    \/ \E c \in InitCalls : PipelineSettles(c)
    \/ \E args \in SearchArgs : search(args)
    \/ \E args \in SearchArgs : searchByVerseIndex(args)
    \/ WorkerHandles
    \/ \E i \in 1..MaxCalls + 1 : IndexHandles(i)

Spec == IndexInit /\ [][Next]_vars

(***************************************************************************)
(* Properties of Spec.                                                     *)
(***************************************************************************)
\* The calls that went to the worker, by their place in calls.
ViaWorker == {k \in 1..Len(calls) : ~IsNull(calls[k].requestId)}

\* The messages of this type and requestId the index has handled.
DeliveredFor(r, types) ==
    {m \in delivered : m.type \in types /\ m.requestId = Some(r)}

\* C2: when the worker throws while handling a request, that request is
\* rejected: once the index has handled the worker's 'error' message, the
\* call whose handling threw has status "rejected".
C2_ThrowRejectsItsRequest ==
    \A m \in delivered :
        m.type = "error" =>
            \A k \in ViaWorker :
                calls[k].requestId = m.about => calls[k].status = "rejected"

\* C3: request ids are handed out strictly increasing; pendingRequests
\* holds exactly the ids of the calls not yet settled; a call is resolved
\* exactly when a 'result' message with its id has been handled, and then
\* with that message's results; no call is settled twice, and a message
\* settles no call but the one whose id it carries.
C3_ResultSettlesItsRequest ==
    /\ \A k \in ViaWorker : Val(calls[k].requestId) < nextRequestId
    /\ \A j, k \in ViaWorker :
          j < k => Val(calls[j].requestId) < Val(calls[k].requestId)
    /\ pendingRequests =
          {Val(calls[k].requestId) :
              k \in {j \in ViaWorker : calls[j].status = "pending"}}
    /\ \A k \in ViaWorker :
          LET r == Val(calls[k].requestId)
          IN  /\ calls[k].settles = Cardinality(DeliveredFor(r, {"result", "error"}))
              /\ calls[k].settles <= 1
              /\ calls[k].status = "resolved" <=> DeliveredFor(r, {"result"}) # {}
              /\ \A m \in DeliveredFor(r, {"result"}) : calls[k].results = m.results

\* A later request is resolved, with results, while the result of an earlier
\* one is still on its way and that request still pending.
C3_Witness ==
    \E j, k \in ViaWorker :
        /\ j < k
        /\ calls[j].status = "pending"
        /\ \E i \in 1..Len(outbox) :
              outbox[i].type = "result" /\ outbox[i].requestId = calls[j].requestId
        /\ calls[k].status = "resolved"
        /\ calls[k].results # <<>>

\* C5: the feature-extraction pipeline is created once: no two init calls
\* are awaiting a pipelineFn of their own at the same time.
C5_PipelineCreatedOnce ==
    Cardinality({c \in InitCalls : initPc[c] = "pipeline"}) <= 1

\* C6: once the worker has been handed the buffers, embeddingsPacked and
\* verseIndices are null and verseIndexToRow is empty in the index.
C6_HandedOffFieldsStayNull ==
    worker =>
        /\ IsNull(searchIndex.embeddingsPacked)
        /\ IsNull(searchIndex.verseIndices)
        /\ DOMAIN searchIndex.verseIndexToRow = {}

(***************************************************************************)
(* SpecLoad: _loadEmbeddings called on a newly constructed index, with     *)
(* every response fetch can give it: a rejected fetch, an error status, a  *)
(* body that is no JSON, a document without items, and item lists with     *)
(* entries of every malformed kind. (Spec has the repeated load.)          *)
(***************************************************************************)
\* An entry of data.items: null, or an object whose embedding is an array
\* or not and whose verseIndex is a number or not.
LoadEntries ==
    {Null}
    \cup {Some([embedding |-> e, verseIndex |-> v]) :
            e \in {Null, Some(<<1>>), Some(<<0, 1>>)},
            v \in {Null, Some(Unit), Some(Unit + 1)}}

LoadItemLists ==
    UNION {[1..n -> LoadEntries] : n \in 0..MaxItems}

\* The parsed document: null, without an items array, or with one; its
\* embeddingSize is 0 where the document has none.
LoadDocuments ==
    {Null}
    \cup {Some([embeddingSize |-> size, items |-> Null]) : size \in {0, 2}}
    \cup {Some([embeddingSize |-> size, items |-> Some(items)]) :
            size \in {0, 2}, items \in LoadItemLists}

LoadResponses ==
    {[rejects |-> TRUE, status |-> 0, contentType |-> "", parses |-> FALSE,
      data |-> Null]}
    \cup {[rejects |-> FALSE, status |-> st, contentType |-> "text/html",
           parses |-> FALSE, data |-> Null] : st \in {404, 500, 200}}
    \cup {[rejects |-> FALSE, status |-> 200, contentType |-> "",
           parses |-> FALSE, data |-> Null]}
    \cup {[rejects |-> FALSE, status |-> 200, contentType |-> "application/json",
           parses |-> FALSE, data |-> Null]}
    \cup {[rejects |-> FALSE, status |-> 200, contentType |-> ct,
           parses |-> TRUE, data |-> d] :
            ct \in JsonContentTypes, d \in LoadDocuments}

LoadInit ==
    /\ NotLoadIdle
    /\ loadResponse = <<>>
    /\ loadOut = [threw |-> FALSE, code |-> "", idx |-> EmptyIndex]

Loaded == loadResponse # <<>>

\* _loadEmbeddings on the new index.
LoadEmbeddingsCall ==
    /\ ~Loaded
    /\ \E response \in LoadResponses :
          /\ loadResponse' = <<response>>
          /\ loadOut' = _loadEmbeddings(loadOut.idx, response)
    /\ UNCHANGED notLoadVars

\* new SemanticSearchIndex(): another index, not loaded.
LoadConstruct ==
    /\ Loaded
    /\ loadResponse' = <<>>
    /\ loadOut' = [threw |-> FALSE, code |-> "", idx |-> EmptyIndex]
    /\ UNCHANGED notLoadVars

LoadNext == LoadEmbeddingsCall \/ LoadConstruct

SpecLoad == LoadInit /\ [][LoadNext]_vars

\* C16: a load that fails, fails with the code of its cause: 'missing' for
\* a 404, 'fetch_failed' for any other failure of the transport (a rejected
\* fetch, another error status), 'invalid_format' for a response that is
\* not JSON, a document without an items array or an embedding size that is
\* absent or zero; so every failure carries one of the three codes.
C16_EveryFailureHasItsCode ==
    (Loaded /\ loadOut.threw) =>
        LET response == loadResponse[1]
        IN  /\ loadOut.code \in {"missing", "fetch_failed", "invalid_format"}
            /\ (~response.rejects /\ response.status = 404) => loadOut.code = "missing"
            /\ (response.rejects \/ response.status \notin {404} \cup 200..299)
                  => loadOut.code = "fetch_failed"

\* The entries of a document that are well formed for embedding size n.
WellFormed(items, n) ==
    SelectSeq(items, LAMBDA item :
        /\ ~IsNull(item)
        /\ ~IsNull(Val(item).embedding)
        /\ ~IsNull(Val(item).verseIndex)
        /\ Len(Val(Val(item).embedding)) = n)

\* C17: a document with an items array and an embedding size loads whatever
\* its entries are; the index then holds the well-formed entries, all of
\* them and in their order, and verseIndexToRow takes every verseIndex it
\* knows to a row that holds that verseIndex.
C17_MalformedItemsDropped ==
    LET response == loadResponse[1]
        HasItems == /\ ~response.rejects
                    /\ response.status \in 200..299
                    /\ response.contentType \in JsonContentTypes
                    /\ response.parses
                    /\ ~IsNull(response.data)
                    /\ ~IsNull(Val(response.data).items)
    IN  (Loaded /\ HasItems /\ Val(response.data).embeddingSize > 0) =>
            LET idx == loadOut.idx
                kept == WellFormed(Val(Val(response.data).items),
                                   Val(response.data).embeddingSize)
            IN  /\ ~loadOut.threw
                /\ Val(idx.verseIndices) =
                      [i \in 1..Len(kept) |-> Val(Val(kept[i]).verseIndex)]
                /\ Val(idx.embeddingsPacked) =
                      Flatten([i \in 1..Len(kept) |-> Val(Val(kept[i]).embedding)])
                /\ \A k \in DOMAIN idx.verseIndexToRow :
                      Val(idx.verseIndices)[idx.verseIndexToRow[k] + 1] = k

(***************************************************************************)
(* Properties of SpecSearch: the order and the number of the entries       *)
(* returned, by the index's own search and by the worker's.                *)
(***************************************************************************)
NonIncreasing(res) ==
    \A i \in 1..Len(res) - 1 : res[i].score >= res[i + 1].score

\* C18: search returns its entries by non-increasing score; min(k, N) of
\* them for topK = k > 0 and all N, one for each stored row, for topK null
\* or <= 0.
C18_SearchOrderAndCount ==
    sLast.op = "search" =>
        \A res \in {sLast.fallback, sLast.worker} :
            /\ NonIncreasing(res)
            /\ IF ~IsNull(sLast.topK) /\ Val(sLast.topK) > 0
               THEN Len(res) = Min(Val(sLast.topK), RowCount)
               ELSE /\ Len(res) = RowCount
                    /\ \A row \in 1..RowCount :
                          Count(res, Item(Val(sIndex.verseIndices)[row],
                                          dotProductQueryRow(sLast.queryEmbedding,
                                              Val(sIndex.embeddingsPacked),
                                              sIndex.embeddingSize, row - 1)))
                          >= 1

\* A search with 0 < k < N over rows of different scores.
C18_Witness ==
    /\ sLast.op = "search"
    /\ ~IsNull(sLast.topK)
    /\ Val(sLast.topK) > 1
    /\ Val(sLast.topK) < RowCount
    /\ sLast.fallback[1].score > sLast.fallback[Len(sLast.fallback)].score

\* C19: searchByVerseIndex(v, topK, minScore) returns no entry of verse v,
\* no entry scoring below a minScore that is not null, its entries by
\* non-increasing score, and nothing when verseIndexToRow has no row for v.
C19_SimilarExcludesSelfAndLowScores ==
    sLast.op = "searchByVerseIndex" =>
        /\ \A res \in {sLast.fallback, sLast.worker} :
              /\ \A i \in 1..Len(res) : res[i].verseIndex # sLast.verseIndex
              /\ ~IsNull(sLast.minScore) =>
                    \A i \in 1..Len(res) : res[i].score >= Val(sLast.minScore)
              /\ NonIncreasing(res)
        /\ sLast.verseIndex \notin DOMAIN sIndex.verseIndexToRow => sLast.fallback = <<>>
        /\ sLast.verseIndex \notin DOMAIN sWorker.verseIndexToRow => sLast.worker = <<>>

\* A stored verse is asked for with a minScore that keeps some of the other
\* rows and drops others.
C19_Witness ==
    /\ sLast.op = "searchByVerseIndex"
    /\ ~IsNull(sLast.minScore)
    /\ sLast.fallback # <<>>
    /\ sLast.worker = sLast.fallback
    /\ IsNull(sLast.topK)
    /\ Cardinality({row \in 1..RowCount :
                       Val(sIndex.verseIndices)[row] # sLast.verseIndex})
          > Len(sLast.fallback)

(***************************************************************************)
(* SearchManager (the text search): performSearch over the lines with a    *)
(* regular expression made of the escaped term, and the walk through the   *)
(* matches. Strings are sequences of characters.                           *)
(***************************************************************************)
\* performSearch returns 0 for a term shorter than this.
MinTermLength == 3

\* The characters the class [.*+?^${}()|[\]\\] of the escaping replace names.
RegexMetaChars ==
    {".", "*", "+", "?", "^", "$", "{", "}", "(", ")", "|", "[", "]", "\\"}

\* A variant that escapes nothing.
escapeNone(term) == term

\* term.replace(/[.*+?^${}()|[\]\\]/g, '\\$&'): a backslash before every
\* character of the class.
RECURSIVE escapeRegExp(_)
escapeRegExp(term) ==
    IF term = <<>> THEN <<>>
    ELSE (IF Head(term) \in RegexMetaChars THEN <<"\\", Head(term)>> ELSE <<Head(term)>>)
         \o escapeRegExp(Tail(term))

\* new RegExp(source, 'gi') for a source of plain characters, escaped
\* characters and dots: what each position of the pattern accepts.
RECURSIVE RegExpOf(_)
RegExpOf(source) ==
    IF source = <<>> THEN <<>>
    ELSE IF Head(source) = "\\" /\ Len(source) >= 2
    THEN <<[any |-> FALSE, ch |-> source[2]]>> \o RegExpOf(SubSeq(source, 3, Len(source)))
    ELSE IF Head(source) = "."
    THEN <<[any |-> TRUE, ch |-> "."]>> \o RegExpOf(Tail(source))
    ELSE <<[any |-> FALSE, ch |-> Head(source)]>> \o RegExpOf(Tail(source))

\* The i flag compares characters by their upper case.
Canonicalize(c) == IF c = "a" THEN "A" ELSE IF c = "b" THEN "B" ELSE c

\* The pattern matches line at index at (0-based).
MatchesAt(regex, line, at) ==
    /\ at + Len(regex) <= Len(line)
    /\ \A i \in 1..Len(regex) :
          \/ regex[i].any /\ line[at + i] # "\n"
          \/ ~regex[i].any /\ Canonicalize(regex[i].ch) = Canonicalize(line[at + i])

\* The indexes of the matches searchRegex.exec(line) finds one after the
\* other, from lastIndex on: each search starts where the last match ended.
RECURSIVE ExecAll(_, _, _)
ExecAll(regex, line, lastIndex) ==
    LET found == {at \in lastIndex..Len(line) : MatchesAt(regex, line, at)}
    IN  IF found = {} \/ regex = <<>> THEN <<>>
        ELSE LET at == CHOOSE x \in found : \A y \in found : x <= y
             IN  <<at>> \o ExecAll(regex, line, at + Len(regex))

\* The entries performSearch pushes for the lines from lineIndex on.
RECURSIVE MatchesFrom(_, _, _)
MatchesFrom(regex, lineList, lineIndex) ==
    IF lineIndex >= Len(lineList) THEN <<>>
    ELSE LET line == lineList[lineIndex + 1]
             starts == ExecAll(regex, line, 0)
         IN  [k \in 1..Len(starts) |->
                 [lineIndex |-> lineIndex, startChar |-> starts[k],
                  endChar |-> starts[k] + Len(regex), lineText |-> line]]
             \o MatchesFrom(regex, lineList, lineIndex + 1)

\* A variant that sets a new list for the line at every match, so that
\* only the last match of a line is listed.
ByLineLastOnly(matches) ==
    [li \in {matches[k].lineIndex : k \in 1..Len(matches)} |->
        <<CHOOSE i \in 0..Len(matches) - 1 :
              /\ matches[i + 1].lineIndex = li
              /\ \A j \in i + 1..Len(matches) - 1 : matches[j + 1].lineIndex # li>>]

\* matchesByLine for these matches: for every line with matches, their
\* indexes in the order pushed.
ByLine(matches) ==
    [li \in {matches[k].lineIndex : k \in 1..Len(matches)} |->
        SelectSeq([k \in 1..Len(matches) |-> k - 1],
                  LAMBDA i : matches[i + 1].lineIndex = li)]

\* The manager's fields (and a call's return value).
Manager(matches, byLine, count, current, returned) ==
    [searchMatches |-> matches, matchesByLine |-> byLine, searchResultCount |-> count,
     currentMatchIndex |-> current, returned |-> returned]

performSearch(lineList, term) ==
    IF Len(term) < MinTermLength
    THEN Manager(<<>>, EmptyMap, 0, -1, 0)
    ELSE LET searchRegex == RegExpOf(escapeRegExp(term))
             matches == MatchesFrom(searchRegex, lineList, 0)
         IN  Manager(matches, ByLine(matches), Len(matches), -1, Len(matches))

\* A variant that makes the first match the current one.
setMatchesAtFirst(matches) ==
    Manager(matches, ByLine(matches), Len(matches), 0, 0)

setMatches(matches) ==
    Manager(matches, ByLine(matches), Len(matches), -1, 0)

\* A clear that forgets the matches but not which one was current.
clearKeepCurrent(m) == Manager(<<>>, EmptyMap, 0, m.currentMatchIndex, 0)

\* clear() on the manager m
clear(m) == Manager(<<>>, EmptyMap, 0, -1, 0)

\* A variant that steps on without wrapping around.
moveToNextMatchNoWrap(matches, current) ==
    IF Len(matches) = 0 THEN [currentMatchIndex |-> current, returned |-> -1]
    ELSE [currentMatchIndex |-> current + 1, returned |-> current + 1]

\* The JS remainder, which takes the sign of the dividend.
Rem(a, n) == IF a >= 0 THEN a % n ELSE -((-a) % n)

moveToNextMatch(matches, current) ==
    IF Len(matches) = 0 THEN [currentMatchIndex |-> current, returned |-> -1]
    ELSE [currentMatchIndex |-> Rem(current + 1, Len(matches)),
          returned |-> Rem(current + 1, Len(matches))]

(***************************************************************************)
(* SpecMatch: one SearchManager over the lines of a text; performSearch,   *)
(* setMatches, moveToNextMatch, setCurrentMatchIndex and clear are called  *)
(* in any order.                                                           *)
(***************************************************************************)
\* String.prototype.split('\n'): the lines of a text.
RECURSIVE LinesOf(_)
LinesOf(text) ==
    IF \A i \in 1..Len(text) : text[i] # "\n" THEN <<text>>
    ELSE LET at == CHOOSE i \in 1..Len(text) :
                       text[i] = "\n" /\ \A j \in 1..i - 1 : text[j] # "\n"
         IN  <<SubSeq(text, 1, at - 1)>> \o LinesOf(SubSeq(text, at + 1, Len(text)))

\* The texts: lines of a's, and single lines as long as the shortest term
\* that is searched for, with dots among the a's.
MatchTexts ==
    UNION {[1..n -> {"a", "\n"}] : n \in 0..MaxTextLen}
    \cup [1..MinTermLength -> {"a", "."}]

MatchTerms == UNION {[1..n -> {"A", "."}] : n \in 0..MinTermLength}

\* Matches as the semantic search sets them: the whole of each of the first
\* n lines, n up to MaxSetMatches.
WholeLines(lineList, n) ==
    [k \in 1..n |-> [lineIndex |-> k - 1, startChar |-> 0,
                     endChar |-> Len(lineList[k]), lineText |-> lineList[k]]]

MatchInit ==
    /\ NotMatchIdle
    /\ smLines \in {LinesOf(text) : text \in MatchTexts}
    /\ searchMatches = <<>>
    /\ matchesByLine = EmptyMap
    /\ searchResultCount = 0
    /\ currentMatchIndex = -1
    /\ smLast = [op |-> "new", term |-> <<>>, returned |-> 0]
    /\ smVisited = <<>>
    /\ smStart = -1

\* The manager's fields become those of m.
Becomes(m) ==
    /\ searchMatches' = m.searchMatches
    /\ matchesByLine' = m.matchesByLine
    /\ searchResultCount' = m.searchResultCount
    /\ currentMatchIndex' = m.currentMatchIndex

PerformSearchCall ==
    /\ \E term \in MatchTerms :
          LET m == performSearch(smLines, term)
          IN  /\ Becomes(m)
              /\ smLast' = [op |-> "performSearch", term |-> term, returned |-> m.returned]
    /\ smVisited' = <<>>
    /\ smStart' = -1
    /\ UNCHANGED <<smLines, notMatchVars>>

SetMatchesCall ==
    /\ \E n \in 0..Min(Len(smLines), MaxSetMatches) :
          /\ Becomes(setMatches(WholeLines(smLines, n)))
          /\ smLast' = [op |-> "setMatches", term |-> <<>>, returned |-> 0]
    /\ smVisited' = <<>>
    /\ smStart' = -1
    /\ UNCHANGED <<smLines, notMatchVars>>

MoveToNextMatchCall ==
    /\ Len(smVisited) <= Len(searchMatches)
    /\ LET m == moveToNextMatch(searchMatches, currentMatchIndex)
       IN  /\ currentMatchIndex' = m.currentMatchIndex
           /\ smLast' = [op |-> "moveToNextMatch", term |-> <<>>, returned |-> m.returned]
           /\ smVisited' = Append(smVisited, m.returned)
    /\ UNCHANGED <<smLines, searchMatches, matchesByLine, searchResultCount, smStart,
                   notMatchVars>>

\* setCurrentMatchIndex(index), index that of a match or -1 for none.
SetCurrentMatchIndexCall ==
    /\ \E index \in -1..Len(searchMatches) - 1 :
          /\ currentMatchIndex' = index
          /\ smStart' = index
    /\ smLast' = [op |-> "setCurrentMatchIndex", term |-> <<>>, returned |-> 0]
    /\ smVisited' = <<>>
    /\ UNCHANGED <<smLines, searchMatches, matchesByLine, searchResultCount,
                   notMatchVars>>

\* clear(); smLast.after is the call made before it.
ClearCall ==
    /\ Becomes(clear(Manager(searchMatches, matchesByLine, searchResultCount,
                             currentMatchIndex, 0)))
    /\ smLast' = [op |-> "clear", term |-> <<>>, returned |-> 0, after |-> smLast.op]
    /\ smVisited' = <<>>
    /\ smStart' = -1
    /\ UNCHANGED <<smLines, notMatchVars>>

MatchNext ==
    \/ PerformSearchCall
    \/ SetMatchesCall
    \/ MoveToNextMatchCall
    \/ SetCurrentMatchIndexCall
    \/ ClearCall

SpecMatch == MatchInit /\ [][MatchNext]_vars

\* Lower case, for comparing without regard to case.
Fold(c) == IF c = "A" THEN "a" ELSE c

\* term stands in line at index at, letter for letter but for case.
Occurs(line, term, at) ==
    /\ at + Len(term) <= Len(line)
    /\ \A i \in 1..Len(term) : Fold(term[i]) = Fold(line[at + i])

\* S holds the starts of the left-to-right non-overlapping occurrences: an
\* occurrence counts unless it begins inside one that counts already.
LeftToRight(S, line, term) ==
    \A at \in 0..Len(line) :
        at \in S <=>
            /\ Occurs(line, term, at)
            /\ ~\E b \in S : b < at /\ at < b + Len(term)

C20_MoveToNextMatchWraps ==
    LET n == Len(searchMatches)
    IN  /\ smLast.op \in {"performSearch", "setMatches", "clear"}
              => currentMatchIndex = -1 /\ smStart = -1
        /\ \A i \in 1..Len(smVisited) :
              smVisited[i] = IF n > 0 THEN (smStart + i) % n ELSE -1
        /\ smVisited # <<>> =>
              currentMatchIndex = IF n > 0 THEN smVisited[Len(smVisited)] ELSE smStart

\* After a search with several matches, the calls have gone once round and
\* are back at match 0.
C20_Witness ==
    /\ Len(searchMatches) >= 2
    /\ smStart = -1
    /\ Len(smVisited) = Len(searchMatches) + 1
    /\ smVisited[1] = 0
    /\ currentMatchIndex = 0
    /\ \E k \in 1..Len(searchMatches) : searchMatches[k].endChar - searchMatches[k].startChar = 3

(***************************************************************************)
(* Column layout and book regions (calculateColumnLayout, mapLinesToBooks,  *)
(* calculateBookRegions).                                                  *)
(***************************************************************************)
Max(a, b) == IF a >= b THEN a ELSE b

\* Math.ceil(a / b) for a >= 0, b > 0
Ceil(a, b) == (a + b - 1) \div b

\* array[k] of JS: the element, or undefined (Null) outside the array
At(array, k) == IF k + 1 \in DOMAIN array THEN Some(array[k + 1]) ELSE Null

\* a ?? b
Coalesce(a, b) == IF IsNull(a) THEN b ELSE a

\* array.slice(from, to) for 0 <= from <= to
Slice(array, from, to) == SubSeq(array, Min(from, Len(array)) + 1, Min(to, Len(array)))

minLinesPerColumn(isSingleBookView) ==
    IF isSingleBookView THEN MinLinesSingleBook ELSE MinLinesMultiBook

maxColumns(isSingleBookView) ==
    IF isSingleBookView THEN MaxColumnsSingleBook ELSE MaxColumnsMultiBook

\* The layout with one column too few when the lines do not divide evenly.
calculateColumnLayoutFloor(lineList, isSingleBookView) ==
    LET neededColumns == Ceil(Len(lineList), minLinesPerColumn(isSingleBookView))
        numColumns == Min(Max(1, neededColumns), maxColumns(isSingleBookView))
        linesPerColumn == Len(lineList) \div numColumns
    IN  [numColumns |-> numColumns,
         linesPerColumn |-> linesPerColumn,
         columnLines |-> [i \in 1..numColumns |->
             Slice(lineList, linesPerColumn * (i - 1), linesPerColumn * i)]]

calculateColumnLayout(lineList, isSingleBookView) ==
    LET neededColumns == Ceil(Len(lineList), minLinesPerColumn(isSingleBookView))
        numColumns == Min(Max(1, neededColumns), maxColumns(isSingleBookView))
        linesPerColumn == Ceil(Len(lineList), numColumns)
    IN  [numColumns |-> numColumns,
         linesPerColumn |-> linesPerColumn,
         columnLines |-> [i \in 1..numColumns |->
             Slice(lineList, linesPerColumn * (i - 1), linesPerColumn * i)]]

\* The inner while loop of mapLinesToBooks: markerIdx after it, for line i.
RECURSIVE AdvanceMarker(_, _, _)
AdvanceMarker(lineBasedMarkers, markerIdx, i) ==
    IF markerIdx < Len(lineBasedMarkers) /\ i >= lineBasedMarkers[markerIdx + 1].lineIndex
    THEN AdvanceMarker(lineBasedMarkers, markerIdx + 1, i)
    ELSE markerIdx

\* The for loop of mapLinesToBooks from line i on.
RECURSIVE MapLines(_, _, _, _, _, _)
MapLines(lineBasedMarkers, totalLines, i, markerIdx, currentBookIndex, filled) ==
    IF i >= totalLines THEN filled
    ELSE LET idx == AdvanceMarker(lineBasedMarkers, markerIdx, i)
             book == IF idx > markerIdx THEN lineBasedMarkers[idx].bookIndex
                     ELSE currentBookIndex
         IN  MapLines(lineBasedMarkers, totalLines, i + 1, idx, book, Append(filled, book))

mapLinesToBooks(totalLines, markers, verseStarts) ==
    IF Len(markers) = 0 THEN [i \in 1..totalLines |-> 0]
    ELSE LET lineBasedMarkers == [m \in 1..Len(markers) |->
                 [bookIndex |-> markers[m].bookIndex,
                  lineIndex |-> Val(Coalesce(At(verseStarts, markers[m].lineIndex), Some(0)))]]
         IN  MapLines(lineBasedMarkers, totalLines, 0, 0, lineBasedMarkers[1].bookIndex, <<>>)

Region(bookIndex, startLine, endLine, column) ==
    [bookIndex |-> bookIndex, startLine |-> startLine, endLine |-> endLine, column |-> column]

\* The scan of one column that never closes a region: one region per column.
ColumnRegionsWhole(colLength, toBook, colOffset, col, i, currentRegionBook, regionStart) ==
    <<Region(currentRegionBook, regionStart, colLength - 1, col)>>

\* The inner for loop of calculateBookRegions from line i of column col on,
\* with the regions it pushes, the closing one included.
RECURSIVE ColumnRegions(_, _, _, _, _, _, _)
ColumnRegions(colLength, toBook, colOffset, col, i, currentRegionBook, regionStart) ==
    IF i >= colLength
    THEN <<Region(currentRegionBook, regionStart, colLength - 1, col)>>
    ELSE LET bookIdx == Coalesce(At(toBook, colOffset + i), currentRegionBook)
         IN  IF bookIdx # currentRegionBook
             THEN <<Region(currentRegionBook, regionStart, i - 1, col)>>
                  \o ColumnRegions(colLength, toBook, colOffset, col, i + 1, bookIdx, i)
             ELSE ColumnRegions(colLength, toBook, colOffset, col, i + 1,
                                currentRegionBook, regionStart)

\* The outer loop of calculateBookRegions from column col on. A bookIndex is
\* Some(number), or Null where lineToBook has no element (undefined).
RECURSIVE RegionsFrom(_, _, _, _)
RegionsFrom(columnLines, toBook, linesPerColumn, col) ==
    IF col >= Len(columnLines) THEN <<>>
    ELSE LET colLines == columnLines[col + 1]
             colOffset == col * linesPerColumn
         IN  (IF Len(colLines) = 0 THEN <<>>
              ELSE ColumnRegions(Len(colLines), toBook, colOffset, col, 0,
                                 At(toBook, colOffset), 0))
             \o RegionsFrom(columnLines, toBook, linesPerColumn, col + 1)

calculateBookRegions(columnLines, toBook, linesPerColumn) ==
    RegionsFrom(columnLines, toBook, linesPerColumn, 0)

(***************************************************************************)
(* SpecLayout: one text is laid out in columns, its lines are mapped to    *)
(* books and the book regions of the columns are computed.                 *)
(***************************************************************************)
\* n lines, each a different text
LayoutLines(n) == [i \in 1..n |-> i]

\* verseStartLines of a text of n lines whose verses take k lines each
VerseStarts(n, k) == [v \in 1..Ceil(n, k) |-> k * (v - 1)]

\* The bookMarkers the parser can give for numVerses verses: lineIndex is
\* verses.length when the book starts, so it never decreases and may be
\* numVerses when a book has no verse.
RECURSIVE MarkerLists(_, _, _)
MarkerLists(numVerses, from, count) ==
    IF count = 0 THEN {<<>>}
    ELSE {<<>>} \cup
         {<<[bookIndex |-> b, lineIndex |-> v]>> \o rest :
             b \in 0..MaxBookIndex, v \in from..numVerses,
             rest \in UNION {MarkerLists(numVerses, w, count - 1) : w \in from..numVerses}}

LayoutInit ==
    /\ NotLayoutIdle
    /\ \E n \in 0..MaxLayoutLines, k \in 1..MaxLinesPerVerse :
          /\ lyLines = LayoutLines(n)
          /\ lyVerseStart = VerseStarts(n, k)
          /\ lyMarkers \in MarkerLists(Len(VerseStarts(n, k)), 0, MaxMarkers)
    /\ lySingle \in BOOLEAN
    /\ layout = Null
    /\ lineToBook = Null
    /\ bookRegions = Null

CalculateColumnLayoutCall ==
    /\ IsNull(layout)
    /\ layout' = Some(calculateColumnLayout(lyLines, lySingle))
    /\ UNCHANGED <<lyLines, lySingle, lyMarkers, lyVerseStart, lineToBook, bookRegions>>
    /\ UNCHANGED notLayoutVars

MapLinesToBooksCall ==
    /\ IsNull(lineToBook)
    /\ lineToBook' = Some(mapLinesToBooks(Len(lyLines), lyMarkers, lyVerseStart))
    /\ UNCHANGED <<lyLines, lySingle, lyMarkers, lyVerseStart, layout, bookRegions>>
    /\ UNCHANGED notLayoutVars

CalculateBookRegionsCall ==
    /\ ~IsNull(layout)
    /\ ~IsNull(lineToBook)
    /\ IsNull(bookRegions)
    /\ bookRegions' = Some(calculateBookRegions(Val(layout).columnLines, Val(lineToBook),
                                                Val(layout).linesPerColumn))
    /\ UNCHANGED <<lyLines, lySingle, lyMarkers, lyVerseStart, layout, lineToBook>>
    /\ UNCHANGED notLayoutVars

LayoutNext ==
    \/ CalculateColumnLayoutCall
    \/ MapLinesToBooksCall
    \/ CalculateBookRegionsCall

SpecLayout == LayoutInit /\ [][LayoutNext]_vars

\* C12: whatever the lines and the view mode, calculateColumnLayout gives
\* between 1 and maxColumns columns, linesPerColumn * numColumns is at least
\* the number of lines, and the column slices joined in column order are the
\* lines again.
C12_ColumnsPartitionLines ==
    ~IsNull(layout) =>
        LET l == Val(layout)
        IN  /\ 1 <= l.numColumns
            /\ l.numColumns <= maxColumns(lySingle)
            /\ l.linesPerColumn * l.numColumns >= Len(lyLines)
            /\ Len(l.columnLines) = l.numColumns
            /\ Flatten(l.columnLines) = lyLines

\* The column cap applies and the last column is shorter than the others.
C12_Witness ==
    /\ ~IsNull(layout)
    /\ Val(layout).numColumns = maxColumns(lySingle)
    /\ Val(layout).numColumns > 1
    /\ Len(lyLines) > minLinesPerColumn(lySingle) * maxColumns(lySingle)
    /\ Len(Val(layout).columnLines[Val(layout).numColumns]) \in 1..Val(layout).linesPerColumn - 1

\* The regions of column col, in output order
RegionsOf(regions, col) ==
    LET InCol(r) == r.column = col IN SelectSeq(regions, InCol)

\* C13: in every non-empty column the regions calculateBookRegions emits
\* start at line 0, follow one another without gap or overlap, end at the
\* column's last line, hold only lines that lineToBook gives the region's
\* book, and two regions in a row are of different books.
C13_RegionsTileEachColumn ==
    ~IsNull(bookRegions) =>
        \A col \in 0..Val(layout).numColumns - 1 :
            LET colLength == Len(Val(layout).columnLines[col + 1])
                colOffset == col * Val(layout).linesPerColumn
                rs == RegionsOf(Val(bookRegions), col)
            IN  colLength > 0 =>
                    /\ Len(rs) >= 1
                    /\ rs[1].startLine = 0
                    /\ rs[Len(rs)].endLine = colLength - 1
                    /\ \A j \in 1..Len(rs) - 1 :
                          /\ rs[j + 1].startLine = rs[j].endLine + 1
                          /\ rs[j + 1].bookIndex # rs[j].bookIndex
                    /\ \A j \in 1..Len(rs) : \A i \in rs[j].startLine..rs[j].endLine :
                          rs[j].bookIndex = At(Val(lineToBook), colOffset + i)

\* A later column starts in the middle of a book and a new book starts
\* inside it, so the column has two regions.
C13_Witness ==
    /\ ~IsNull(bookRegions)
    /\ \E col \in 1..Val(layout).numColumns - 1 :
          LET rs == RegionsOf(Val(bookRegions), col)
              colOffset == col * Val(layout).linesPerColumn
          IN  /\ Len(rs) = 2
              /\ rs[2].startLine >= 1
              /\ Val(lineToBook)[colOffset] = Val(lineToBook)[colOffset + 1]

(***************************************************************************)
(* The view of the visualization controller (visualization.js): zoom,      *)
(* offsets, pan, jumps to matches and reset.                               *)
(***************************************************************************)
Abs(x) == IF x < 0 THEN -x ELSE x

\* n / d rounded to the nearest integer, d > 0
RoundDiv(n, d) == (2 * n + d) \div (2 * d)

\* The integer n, and the decimal n / d, as numbers of the view
Num(n) == n * Scale
Dec(n, d) == RoundDiv(n * Scale, d)

\* a * b and a / b of two numbers of the view
Mul(a, b) == RoundDiv(a * b, Scale)
Div(a, b) == IF b > 0 THEN RoundDiv(a * Scale, b) ELSE -RoundDiv(a * Scale, -b)

\* The operation stays within the numbers the model holds
CanMul(a, b) == b = 0 \/ Abs(a) <= MaxNumber \div Abs(b)
MaxOffset == MaxNumber \div (2 * Scale)

config ==
    [lineHeight |-> Num(11), charWidth |-> Dec(54, 10), padding |-> Num(20),
     columnGap |-> Num(40), lineWidth |-> Num(180)]

MIN_VISIBLE_ZOOM == Dec(2, 100)

columnWidth == Mul(config.lineWidth, config.charWidth)
totalWidth == Mul(columnWidth, Num(6)) + Mul(config.columnGap, Num(5)) + Mul(config.padding, Num(2))
totalHeight == Mul(Num(LinesPerViewColumn), config.lineHeight) + Mul(config.padding, Num(2))

\* calculatedZoom of createVisualization for a screen
calculatedZoom(screen) ==
    Mul(Min(Div(screen.width, totalWidth), Div(screen.height, totalHeight)), Dec(95, 100))

View(z, x, y) == [zoom |-> z, offsetX |-> x, offsetY |-> y]

\* zoom and offsets at the end of createVisualization
InitialView(screen) ==
    LET useMinimumZoom == calculatedZoom(screen) < MIN_VISIBLE_ZOOM
        z == IF useMinimumZoom THEN MIN_VISIBLE_ZOOM ELSE calculatedZoom(screen)
    IN  View(z,
             Div(screen.width - Mul(totalWidth, z), Num(2)),
             IF useMinimumZoom THEN config.padding
             ELSE Div(screen.height - Mul(totalHeight, z), Num(2)))

\* setZoom that leaves the offsets as they are, focal point or not
setZoomKeepOffsets(v, newZoom, focalPointX, focalPointY) == [v EXCEPT !.zoom = newZoom]

setZoom(v, newZoom, focalPointX, focalPointY) ==
    IF ~IsNull(focalPointX) /\ ~IsNull(focalPointY)
    THEN LET worldX == Div(Val(focalPointX) - v.offsetX, v.zoom)
             worldY == Div(Val(focalPointY) - v.offsetY, v.zoom)
         IN  View(newZoom,
                  Val(focalPointX) - Mul(worldX, newZoom),
                  Val(focalPointY) - Mul(worldY, newZoom))
    ELSE [v EXCEPT !.zoom = newZoom]

pan(v, dx, dy) == View(v.zoom, v.offsetX + dx, v.offsetY + dy)

resetView(v, screen) ==
    View(v.zoom,
         Div(screen.width - Mul(totalWidth, v.zoom), Num(2)),
         Div(screen.height - Mul(totalHeight, v.zoom), Num(2)))

\* The searchMatches of the controller after a search: none, or a match at
\* the start of the text and one in the second column.
ViewMatches ==
    {<<>>,
     <<[lineIndex |-> 0, startChar |-> 0],
       [lineIndex |-> LinesPerViewColumn + 1, startChar |-> 3]>>}

\* columnIndex of a line in the six columns
ColumnIndex(lineIndex) ==
    IF lineIndex >= LinesPerViewColumn * 5 THEN 5
    ELSE IF lineIndex >= LinesPerViewColumn * 4 THEN 4
    ELSE IF lineIndex >= LinesPerViewColumn * 3 THEN 3
    ELSE IF lineIndex >= LinesPerViewColumn * 2 THEN 2
    ELSE IF lineIndex >= LinesPerViewColumn THEN 1
    ELSE 0

columnXPositions(columnIndex) ==
    config.padding + columnIndex * (columnWidth + config.columnGap)

matchWorldX(match) ==
    columnXPositions(ColumnIndex(match.lineIndex)) + Mul(Num(match.startChar), config.charWidth)

matchWorldY(match) ==
    config.padding
        + Mul(Num(match.lineIndex - LinesPerViewColumn * ColumnIndex(match.lineIndex)),
              config.lineHeight)

ValidMatch(matches, matchIndex) ==
    ~(Len(matches) = 0 \/ matchIndex < 0 \/ matchIndex >= Len(matches))

\* The view after jumpToMatch(matchIndex) for a valid index
jumpToMatch(v, screen, matches, matchIndex) ==
    LET match == matches[matchIndex + 1]
    IN  View(v.zoom,
             Div(screen.width, Num(2)) - Mul(matchWorldX(match), v.zoom),
             Div(screen.height, Num(2)) - Mul(matchWorldY(match), v.zoom))

\* jumpToMatchAndZoom that takes five times the zoom as it is
jumpToMatchAndZoomUnclamped(v, screen, matches, matchIndex) ==
    LET match == matches[matchIndex + 1]
        targetZoom == Mul(v.zoom, Num(5))
    IN  View(targetZoom,
             Div(screen.width, Num(2)) - Mul(matchWorldX(match), targetZoom),
             Div(screen.height, Num(2)) - Mul(matchWorldY(match), targetZoom))

\* new CustomEvent('visualization-zoom-changed', { detail: { zoom: targetZoom } })
ZoomChanged(targetZoom) == [type |-> "visualization-zoom-changed", zoom |-> targetZoom]

\* The view after jumpToMatchAndZoom(matchIndex) for a valid index
jumpToMatchAndZoom(v, screen, matches, matchIndex) ==
    LET match == matches[matchIndex + 1]
        targetZoom == Max(Num(1), Min(Num(3), Mul(v.zoom, Num(5))))
    IN  View(targetZoom,
             Div(screen.width, Num(2)) - Mul(matchWorldX(match), targetZoom),
             Div(screen.height, Num(2)) - Mul(matchWorldY(match), targetZoom))

(***************************************************************************)
(* SpecView: one controller on a screen of unchanged size; the user zooms, *)
(* pans, jumps to matches and resets the view.                             *)
(***************************************************************************)
Screens ==
    {[width |-> Num(640), height |-> Num(480)], [width |-> Num(50), height |-> Num(40)]}

ZoomInputs == {Dec(1, 2), Dec(3, 2)}

\* focalPointX, focalPointY of a setZoom call: none, a corner, a point of
\* the right edge, and one coordinate only
FocalInputs(screen) ==
    {<<Null, Null>>, <<Some(Num(0)), Some(Num(0))>>,
     <<Some(screen.width), Some(Div(screen.height, Num(2)))>>, <<Some(screen.width), Null>>}

PanInputs == {<<Num(10), Num(-5)>>, <<-Dec(7, 2), Num(0)>>}

CurrentView == View(zoom, offsetX, offsetY)

ViewInit ==
    /\ NotViewIdle
    /\ vScreen \in Screens
    /\ initialZoom = InitialView(vScreen).zoom
    /\ zoom = InitialView(vScreen).zoom
    /\ offsetX = InitialView(vScreen).offsetX
    /\ offsetY = InitialView(vScreen).offsetY
    /\ container = [scale |-> Num(1), x |-> offsetX, y |-> offsetY]
    /\ viewMatches \in ViewMatches
    /\ viewMatchIndex = -1
    /\ vInit = InitialView(vScreen)
    /\ vLast = [op |-> "createVisualization"]
    /\ vOps = 0

\* The call leaves the view v with offsets the model holds; updateTransform
\* copies it to the container.
ViewBecomes(v, last) ==
    /\ Abs(v.offsetX) <= MaxOffset
    /\ Abs(v.offsetY) <= MaxOffset
    /\ zoom' = v.zoom
    /\ offsetX' = v.offsetX
    /\ offsetY' = v.offsetY
    /\ container' = [scale |-> v.zoom, x |-> v.offsetX, y |-> v.offsetY]
    /\ vLast' = last
    /\ vOps' = vOps + 1
    /\ UNCHANGED <<vScreen, initialZoom, viewMatches, vInit>>
    /\ UNCHANGED notViewVars

SetZoomCall ==
    /\ vOps < MaxViewOps
    /\ \E newZoom \in ZoomInputs, focal \in FocalInputs(vScreen) :
          /\ (~IsNull(focal[1]) /\ ~IsNull(focal[2])) =>
                /\ CanMul(Div(Val(focal[1]) - offsetX, zoom), newZoom)
                /\ CanMul(Div(Val(focal[2]) - offsetY, zoom), newZoom)
          /\ ViewBecomes(setZoom(CurrentView, newZoom, focal[1], focal[2]),
                         [op |-> "setZoom", view |-> CurrentView, newZoom |-> newZoom,
                          focalPointX |-> focal[1], focalPointY |-> focal[2]])
    /\ UNCHANGED viewMatchIndex

PanCall ==
    /\ vOps < MaxViewOps
    /\ \E d \in PanInputs :
          ViewBecomes(pan(CurrentView, d[1], d[2]), [op |-> "pan", view |-> CurrentView])
    /\ UNCHANGED viewMatchIndex

JumpToMatchCall ==
    /\ vOps < MaxViewOps
    /\ \E matchIndex \in -1..Len(viewMatches) :
          IF ValidMatch(viewMatches, matchIndex)
          THEN /\ ViewBecomes(jumpToMatch(CurrentView, vScreen, viewMatches, matchIndex),
                              [op |-> "jumpToMatch", view |-> CurrentView, returned |-> TRUE])
               /\ viewMatchIndex' = matchIndex
          ELSE /\ vLast' = [op |-> "jumpToMatch", view |-> CurrentView, returned |-> FALSE]
               /\ vOps' = vOps + 1
               /\ UNCHANGED <<vScreen, initialZoom, zoom, offsetX, offsetY, container,
                              viewMatches, viewMatchIndex, vInit>>
               /\ UNCHANGED notViewVars

JumpToMatchAndZoomCall ==
    /\ vOps < MaxViewOps
    /\ \E matchIndex \in -1..Len(viewMatches) :
          IF ValidMatch(viewMatches, matchIndex)
          THEN LET after == jumpToMatchAndZoom(CurrentView, vScreen, viewMatches, matchIndex)
               IN  /\ ViewBecomes(after,
                              [op |-> "jumpToMatchAndZoom", view |-> CurrentView,
                               matchIndex |-> matchIndex, returned |-> TRUE,
                               dispatched |-> <<ZoomChanged(after.zoom)>>])
                   /\ viewMatchIndex' = matchIndex
          ELSE /\ vLast' = [op |-> "jumpToMatchAndZoom", view |-> CurrentView,
                            matchIndex |-> matchIndex, returned |-> FALSE,
                            dispatched |-> <<>>]
               /\ vOps' = vOps + 1
               /\ UNCHANGED <<vScreen, initialZoom, zoom, offsetX, offsetY, container,
                              viewMatches, viewMatchIndex, vInit>>
               /\ UNCHANGED notViewVars

\* jumpToNextMatch of the controller: the next match, wrapping, then jumpToMatch
JumpToNextMatchCall ==
    /\ vOps < MaxViewOps
    /\ IF Len(viewMatches) = 0
       THEN /\ vLast' = [op |-> "jumpToNextMatch", view |-> CurrentView, returned |-> FALSE]
            /\ vOps' = vOps + 1
            /\ UNCHANGED <<vScreen, initialZoom, zoom, offsetX, offsetY, container,
                           viewMatches, viewMatchIndex, vInit>>
            /\ UNCHANGED notViewVars
       ELSE LET next == (viewMatchIndex + 1) % Len(viewMatches)
            IN  /\ ViewBecomes(jumpToMatch(CurrentView, vScreen, viewMatches, next),
                               [op |-> "jumpToNextMatch", view |-> CurrentView,
                                returned |-> TRUE])
                /\ viewMatchIndex' = next

\* The Reset button: setZoom(getInitialZoom()) and then resetView()
HandleResetZoomCall ==
    /\ vOps < MaxViewOps
    /\ ViewBecomes(resetView(setZoom(CurrentView, initialZoom, Null, Null), vScreen),
                   [op |-> "handleResetZoom", view |-> CurrentView])
    /\ UNCHANGED viewMatchIndex

ViewNext ==
    \/ SetZoomCall
    \/ PanCall
    \/ JumpToMatchCall
    \/ JumpToMatchAndZoomCall
    \/ JumpToNextMatchCall
    \/ HandleResetZoomCall

SpecView == ViewInit /\ [][ViewNext]_vars

\* The last call was setZoom with a focal point
ZoomedAtFocalPoint ==
    /\ vLast.op = "setZoom"
    /\ ~IsNull(vLast.focalPointX)
    /\ ~IsNull(vLast.focalPointY)

\* World coordinate under screen coordinate s for offset o and zoom z
World(s, o, z) == Div(s - o, z)

\* C14 as stated: after setZoom(newZoom, fx, fy) the world coordinate under
\* (fx, fy) is the same number as before the call.
C14_WorldPointUnchanged ==
    ZoomedAtFocalPoint =>
        /\ World(Val(vLast.focalPointX), offsetX, zoom)
              = World(Val(vLast.focalPointX), vLast.view.offsetX, vLast.view.zoom)
        /\ World(Val(vLast.focalPointY), offsetY, zoom)
              = World(Val(vLast.focalPointY), vLast.view.offsetY, vLast.view.zoom)

\* |a - b| is within the rounding of one product and one quotient by z
WithinRounding(a, b, z) == 2 * Abs(a - b) * z <= Scale + z

\* C14 (amended): after setZoom(newZoom, fx, fy) the world coordinate under
\* (fx, fy) is the one before the call up to the rounding of the
\* arithmetic that computes the new offset and the coordinate.
C14_WorldPointUnchangedUpToRounding ==
    ZoomedAtFocalPoint =>
        /\ WithinRounding(World(Val(vLast.focalPointX), offsetX, zoom),
                          World(Val(vLast.focalPointX), vLast.view.offsetX, vLast.view.zoom),
                          zoom)
        /\ WithinRounding(World(Val(vLast.focalPointY), offsetY, zoom),
                          World(Val(vLast.focalPointY), vLast.view.offsetY, vLast.view.zoom),
                          zoom)

\* A zoom at a focal point away from the origin changed zoom and offsets.
C14_Witness ==
    /\ ZoomedAtFocalPoint
    /\ Val(vLast.focalPointX) > 0
    /\ zoom # vLast.view.zoom
    /\ offsetX # vLast.view.offsetX
    /\ offsetY # vLast.view.offsetY

\* C15: after any pans, zooms and jumps on the same screen, Reset puts zoom,
\* offsetX and offsetY back to what they were right after creation.
C15_ResetRestoresInitialView ==
    vLast.op = "handleResetZoom" => CurrentView = vInit

(***************************************************************************)
(* Further properties of the SearchManager, checked under SpecMatch.       *)
(***************************************************************************)
\* C21: after a clear the match list is empty, the result count is 0 and
\* currentMatchIndex is -1, and a clear made right after a clear changes no
\* field of the search state.
C21_SecondClearChangesNothing ==
    /\ [](smLast.op = "clear" =>
            /\ searchMatches = <<>>
            /\ matchesByLine = EmptyMap
            /\ searchResultCount = 0
            /\ currentMatchIndex = -1)
    /\ [][(smLast.op = "clear" /\ smLast'.op = "clear") =>
            UNCHANGED <<searchMatches, matchesByLine, searchResultCount,
                        currentMatchIndex>>]_vars

\* Two clears were made in a row.
C21_Witness ==
    /\ smLast.op = "clear"
    /\ smLast.after = "clear"

(***************************************************************************)
(* Further properties of wrapVerses, checked under SpecWrap.               *)
(***************************************************************************)
\* C22: every verse of length 0 to lineWidth contributes exactly one line
\* to the output of wrapVerses, and the line is the verse text.
C22_ShortVerseIsOneLine ==
    \A i \in 0..(VersesWrapped - 1) :
        Len(verses[i + 1]) <= lineWidth => VerseLines(i) = <<verses[i + 1]>>

(***************************************************************************)
(* The parser of the source text (parseBookOfMormonText, and the same      *)
(* loop in loadBookOfMormon). A line of the text is the start marker, a    *)
(* line that starts a verse ("Book c:v ..."), a header line the parser     *)
(* skips, or other text, which continues the verse.                        *)
(***************************************************************************)
\* Three of the BOOK_DEFINITIONS: their names as VERSE_PATTERN knows them
\* and whether the definition's pattern takes any chapter number (\d+) or
\* chapter 1 only.
BOOK_DEFINITIONS ==
    <<[name |-> "1 Nephi", anyChapter |-> TRUE],
      [name |-> "Enos", anyChapter |-> FALSE],
      [name |-> "Moroni", anyChapter |-> TRUE]>>

BookNames == {BOOK_DEFINITIONS[b].name : b \in 1..Len(BOOK_DEFINITIONS)}

StartLine == [kind |-> "start"]
SkipLine == [kind |-> "skip"]
TextLine == [kind |-> "text"]
VerseLine(book, chapter) == [kind |-> "verse", book |-> book, chapter |-> chapter]

\* BOOK_DEFINITIONS[bookIdx].pattern.test(line) for a line that starts a verse
PatternTest(bookIdx, line) ==
    /\ BOOK_DEFINITIONS[bookIdx + 1].name = line.book
    /\ (BOOK_DEFINITIONS[bookIdx + 1].anyChapter \/ line.chapter = 1)

\* The first definition whose pattern the line matches, or Null
MatchedBook(line) ==
    LET found == {b \in 0..Len(BOOK_DEFINITIONS) - 1 : PatternTest(b, line)}
    IN  IF found = {} THEN Null
        ELSE Some(CHOOSE b \in found : \A c \in found : b <= c)

\* trimVersePrefix: which prefix the displayed verse gets
newPrefix(ref, lastBook, lastChapter) ==
    IF Some(ref.book) # lastBook THEN "fullPrefix"
    ELSE IF Some(ref.chapter) # lastChapter THEN "chapterPrefix"
    ELSE "verseOnly"

\* pushVerse of the verse collected so far
VerseEntry(st) ==
    [kind |-> "verse", book |-> st.currentVerseRef.book,
     chapter |-> st.currentVerseRef.chapter,
     prefix |-> newPrefix(st.currentVerseRef, st.lastDisplayedBook, st.lastDisplayedChapter),
     parts |-> st.currentVerse]

ParserStart(filter) ==
    [foundStart |-> FALSE, entries |-> <<>>, bookMarkers |-> <<>>, currentBook |-> -1,
     currentVerse |-> 0, currentVerseRef |-> [book |-> "", chapter |-> 0],
     shouldIncludeVerse |-> filter < 0,
     lastDisplayedBook |-> Null, lastDisplayedChapter |-> Null]

\* The entries after the previous verse is saved when a new verse line
\* arrives: the verse, and on a chapter change a blank and the header of the
\* new verse's chapter.
Flushed(st, line) ==
    IF st.currentVerse > 0 /\ st.shouldIncludeVerse
    THEN [st EXCEPT
            !.entries = st.entries \o <<VerseEntry(st)>> \o
                (IF line.book # st.currentVerseRef.book
                    \/ line.chapter # st.currentVerseRef.chapter
                 THEN <<[kind |-> "blank"],
                        [kind |-> "chapter", book |-> line.book, chapter |-> line.chapter]>>
                 ELSE <<>>),
            !.lastDisplayedBook = Some(st.currentVerseRef.book),
            !.lastDisplayedChapter = Some(st.currentVerseRef.chapter)]
    ELSE st

\* The check whether the verse line starts a new book
BookChecked(st, line, filter) ==
    LET bookIdx == MatchedBook(line)
    IN  IF IsNull(bookIdx) \/ Val(bookIdx) = st.currentBook THEN st
        ELSE LET include == filter < 0 \/ Val(bookIdx) = filter
             IN  [st EXCEPT
                    !.currentBook = Val(bookIdx),
                    !.shouldIncludeVerse = include,
                    !.lastDisplayedBook =
                        IF filter >= 0 /\ Val(bookIdx) = filter THEN Null ELSE @,
                    !.lastDisplayedChapter =
                        IF filter >= 0 /\ Val(bookIdx) = filter THEN Null ELSE @,
                    !.bookMarkers =
                        IF include
                        THEN Append(@, [bookIndex |-> Val(bookIdx),
                                        lineIndex |-> Len(st.entries)])
                        ELSE @]

\* One pass of the loop over the lines
ParseLine(st, line, filter) ==
    IF ~st.foundStart
    THEN IF line.kind = "start" THEN [st EXCEPT !.foundStart = TRUE] ELSE st
    ELSE IF line.kind = "verse"
    THEN LET saved == Flushed(st, line)
             ref == [saved EXCEPT !.currentVerseRef = [book |-> line.book,
                                                       chapter |-> line.chapter]]
         IN  [BookChecked(ref, line, filter) EXCEPT !.currentVerse = 1]
    ELSE IF st.currentVerse > 0 /\ line.kind # "skip"
    THEN [st EXCEPT !.currentVerse = @ + 1]
    ELSE st

RECURSIVE ParseFrom(_, _, _, _)
ParseFrom(st, text, i, filter) ==
    IF i > Len(text) THEN st
    ELSE ParseFrom(ParseLine(st, text[i], filter), text, i + 1, filter)

\* After the loop: the last verse
ParseEnd(st) ==
    IF st.currentVerse > 0 /\ st.shouldIncludeVerse
    THEN Append(st.entries, VerseEntry(st))
    ELSE st.entries

parseBookOfMormonText(text, filter) ==
    LET st == ParseFrom(ParserStart(filter), text, 1, filter)
    IN  [verses |-> [e \in 1..Len(ParseEnd(st)) |->
                        IF ParseEnd(st)[e].kind = "verse"
                        THEN [prefix |-> ParseEnd(st)[e].prefix, parts |-> ParseEnd(st)[e].parts]
                        ELSE ParseEnd(st)[e]],
         verseMeta |-> [e \in 1..Len(ParseEnd(st)) |->
                        IF ParseEnd(st)[e].kind = "blank" THEN [kind |-> "blank"]
                        ELSE [kind |-> ParseEnd(st)[e].kind, book |-> ParseEnd(st)[e].book,
                              chapter |-> ParseEnd(st)[e].chapter]],
         bookMarkers |-> st.bookMarkers]

\* loadBookOfMormon runs the same loop and returns the verses joined by
\* line feeds, without the meta data.
loadBookOfMormon(text, filter) ==
    LET st == ParseFrom(ParserStart(filter), text, 1, filter)
    IN  [text |-> ParseEnd(st), bookMarkers |-> st.bookMarkers]

(***************************************************************************)
(* SpecParse: a source text is parsed with and without a book filter.      *)
(***************************************************************************)
SourceLines ==
    {StartLine, SkipLine, TextLine}
        \cup {VerseLine(b, c) : b \in BookNames, c \in 1..MaxChapter}

SourceTexts == UNION {[1..n -> SourceLines] : n \in 0..MaxSourceLines}

ParseInit ==
    /\ NotParseIdle
    /\ rawText \in SourceTexts
    /\ filterBookIndex \in -1..Len(BOOK_DEFINITIONS) - 1
    /\ parsed = Null
    /\ loadedText = Null

ParseCall ==
    /\ IsNull(parsed)
    /\ parsed' = Some(parseBookOfMormonText(rawText, filterBookIndex))
    /\ UNCHANGED <<rawText, filterBookIndex, loadedText>>
    /\ UNCHANGED notParseVars

LoadBookOfMormonCall ==
    /\ IsNull(loadedText)
    /\ loadedText' = Some(loadBookOfMormon(rawText, filterBookIndex))
    /\ UNCHANGED <<rawText, filterBookIndex, parsed>>
    /\ UNCHANGED notParseVars

ParseNext == ParseCall \/ LoadBookOfMormonCall

SpecParse == ParseInit /\ [][ParseNext]_vars

\* The name of the book the filter selects
FilterBook == BOOK_DEFINITIONS[filterBookIndex + 1].name

\* C23: with filterBookIndex = k >= 0 every verse and chapter header the
\* parser emits is of book k, every blank separator stands before a header
\* of book k, and every bookMarker has bookIndex k.
C23_FilterEmitsOnlyItsBook ==
    filterBookIndex >= 0 =>
        /\ ~IsNull(parsed) =>
              /\ \A e \in 1..Len(Val(parsed).verseMeta) :
                    Val(parsed).verseMeta[e].kind # "blank"
                        => Val(parsed).verseMeta[e].book = FilterBook
              /\ \A m \in 1..Len(Val(parsed).bookMarkers) :
                    Val(parsed).bookMarkers[m].bookIndex = filterBookIndex
        /\ ~IsNull(loadedText) =>
              /\ \A e \in 1..Len(Val(loadedText).text) :
                    Val(loadedText).text[e].kind # "blank"
                        => Val(loadedText).text[e].book = FilterBook
              /\ \A m \in 1..Len(Val(loadedText).bookMarkers) :
                    Val(loadedText).bookMarkers[m].bookIndex = filterBookIndex

(***************************************************************************)
(* The render reconciler: TextRenderer keeps one pooled Text object per    *)
(* visible line, HighlightRenderer one Graphics object per visible match.  *)
(* Objects are numbered in the order they were created; a display object's *)
(* parent is Null or the container it was added to.                        *)
(***************************************************************************)
MaxRenderLines == 4
MaxRenderCalls == 3

\* new Text('', this.textStyle)
NewText ==
    [text |-> <<>>, visible |-> TRUE, parent |-> Null, x |-> 0, y |-> 0, resolution |-> 1]

\* A TextRenderer: its Text objects, its map and its pool.
Renderer(texts, tracked, pool) ==
    [sprites |-> texts, textSprites |-> tracked, spritePool |-> pool]

\* Map.has, Map.get, Map.delete on a map kept as its entries in insertion order
MapHas(map, key) == \E k \in 1..Len(map) : map[k].key = key
MapGet(map, key) == map[CHOOSE k \in 1..Len(map) : map[k].key = key]
MapDelete(map, key) == SelectSeq(map, LAMBDA e : e.key # key)

\* A variant that hands out the last pooled sprite and leaves it in the pool.
getSpriteNoPop(r) ==
    IF Len(r.spritePool) > 0
    THEN [r |-> r, sprite |-> r.spritePool[Len(r.spritePool)]]
    ELSE [r |-> Renderer(Append(r.sprites, NewText), r.textSprites, r.spritePool),
          sprite |-> Len(r.sprites) + 1]

\* getSprite(): the renderer afterwards and the sprite returned
getSprite(r) ==
    IF Len(r.spritePool) > 0
    THEN [r |-> Renderer(r.sprites, r.textSprites,
                         SubSeq(r.spritePool, 1, Len(r.spritePool) - 1)),
          sprite |-> r.spritePool[Len(r.spritePool)]]
    ELSE [r |-> Renderer(Append(r.sprites, NewText), r.textSprites, r.spritePool),
          sprite |-> Len(r.sprites) + 1]

\* A variant that pools the sprite with its text still on it.
returnSpriteKeepText(r, sprite) ==
    Renderer([r.sprites EXCEPT ![sprite].parent = Null, ![sprite].visible = FALSE],
             r.textSprites, Append(r.spritePool, sprite))

\* returnSprite(sprite)
returnSprite(r, sprite) ==
    Renderer([r.sprites EXCEPT ![sprite].parent = Null, ![sprite].text = <<>>,
                               ![sprite].visible = FALSE],
             r.textSprites, Append(r.spritePool, sprite))

\* The (col, lineIndex) pairs the two nested loops of renderVisibleText
\* visit, in order, from (col, lineIndex) on.
RECURSIVE VisibleCells(_, _, _, _)
VisibleCells(columnLines, visibleRange, col, lineIndex) ==
    IF col >= Len(columnLines) THEN <<>>
    ELSE IF lineIndex < visibleRange.end /\ lineIndex < Len(columnLines[col + 1])
    THEN <<[column |-> col, lineIndex |-> lineIndex]>>
         \o VisibleCells(columnLines, visibleRange, col, lineIndex + 1)
    ELSE VisibleCells(columnLines, visibleRange, col + 1, visibleRange.start)

\* The body of the inner loop for one (col, lineIndex).
RenderCell(r, cell, columnLines, linesPerColumn, textResolution) ==
    LET originalIndex == linesPerColumn * cell.column + cell.lineIndex
        known == MapHas(r.textSprites, originalIndex)
        got == IF known
               THEN [r |-> r, sprite |-> MapGet(r.textSprites, originalIndex).sprite]
               ELSE getSprite(r)
        tracked == IF known THEN got.r.textSprites
                   ELSE Append(got.r.textSprites,
                               [key |-> originalIndex, sprite |-> got.sprite,
                                column |-> cell.column, lineIndex |-> cell.lineIndex,
                                originalIndex |-> originalIndex])
        before == got.r.sprites[got.sprite]
        after == [text |-> columnLines[cell.column + 1][cell.lineIndex + 1],
                  visible |-> TRUE,
                  parent |-> IF IsNull(before.parent) THEN Some("container")
                             ELSE before.parent,
                  x |-> columnXPositions(cell.column),
                  y |-> config.padding + cell.lineIndex * config.lineHeight,
                  resolution |-> textResolution]
    IN  Renderer([got.r.sprites EXCEPT ![got.sprite] = after], tracked, got.r.spritePool)

RECURSIVE RenderCells(_, _, _, _, _)
RenderCells(r, cells, columnLines, linesPerColumn, textResolution) ==
    IF cells = <<>> THEN r
    ELSE RenderCells(RenderCell(r, Head(cells), columnLines, linesPerColumn, textResolution),
                     Tail(cells), columnLines, linesPerColumn, textResolution)

\* The last loop of renderVisibleText over the entries of the map.
RECURSIVE ReturnUnseen(_, _, _)
ReturnUnseen(r, entries, visibleIndicesSet) ==
    IF entries = <<>> THEN r
    ELSE LET entry == Head(entries)
         IN  IF entry.key \in visibleIndicesSet
             THEN ReturnUnseen(r, Tail(entries), visibleIndicesSet)
             ELSE LET returned == returnSprite(r, entry.sprite)
                  IN  ReturnUnseen(Renderer(returned.sprites,
                                            MapDelete(returned.textSprites, entry.key),
                                            returned.spritePool),
                                   Tail(entries), visibleIndicesSet)

\* renderVisibleText(columnLines, cachedColumnXPositions, linesPerColumn,
\* visibleRange, textResolution), the x positions being those of the columns
renderVisibleText(r, columnLines, linesPerColumn, visibleRange, textResolution) ==
    LET cells == VisibleCells(columnLines, visibleRange, 0, visibleRange.start)
        visibleIndicesSet ==
            {linesPerColumn * cells[k].column + cells[k].lineIndex : k \in 1..Len(cells)}
        shown == RenderCells(r, cells, columnLines, linesPerColumn, textResolution)
    IN  ReturnUnseen(shown, shown.textSprites, visibleIndicesSet)

\* TextRenderer.destroy()
RECURSIVE ReturnAll(_, _)
ReturnAll(r, entries) ==
    IF entries = <<>> THEN r
    ELSE ReturnAll(returnSprite(r, Head(entries).sprite), Tail(entries))

destroy(r) ==
    LET returned == ReturnAll(r, r.textSprites)
    IN  Renderer(returned.sprites, <<>>, returned.spritePool)

\* The fields of HIGHLIGHT_CONFIG that decide where a highlight is drawn.
HIGHLIGHT_CONFIG ==
    [normal |-> [borderWidth |-> Dec(15, 10), padding |-> 0],
     zoomedOut |-> [borderWidth |-> Num(3), padding |-> Num(2),
                    zoomThreshold |-> Dec(2, 10)]]

\* _getHighlightStyle(zoom)
_getHighlightStyle(zoomLevel) ==
    IF zoomLevel < HIGHLIGHT_CONFIG.zoomedOut.zoomThreshold
    THEN [borderWidth |-> Max(Num(2), Div(HIGHLIGHT_CONFIG.zoomedOut.borderWidth, zoomLevel)),
          padding |-> Max(Num(1), Div(HIGHLIGHT_CONFIG.zoomedOut.padding, zoomLevel))]
    ELSE [borderWidth |-> HIGHLIGHT_CONFIG.normal.borderWidth,
          padding |-> HIGHLIGHT_CONFIG.normal.padding]

\* A HighlightRenderer: its map from match index to Graphics object, the
\* rectangles drawn into highlightGraphics, and the objects a call took out
\* of the map, which nothing refers to afterwards.
Highlighter(objects, map, drawn) ==
    [graphics |-> objects, highlightSprites |-> map, highlightGraphics |-> drawn]

\* new Graphics() for the match matchIndex, before it is added and drawn
NewGraphics(matchIndex) ==
    [matchIndex |-> matchIndex, parent |-> Null, x |-> 0, y |-> 0,
     width |-> 0, height |-> 0, borderWidth |-> 0]

\* A variant that leaves the objects of matches that are no longer visible
\* in the map.
RemoveHiddenNone(h, entries, visibleMatchIndices) == h

\* The last loop of updateHighlights over the entries of highlightSprites.
RECURSIVE RemoveHidden(_, _, _)
RemoveHidden(h, entries, visibleMatchIndices) ==
    IF entries = <<>> THEN h
    ELSE LET entry == Head(entries)
         IN  IF entry.key \in visibleMatchIndices
             THEN RemoveHidden(h, Tail(entries), visibleMatchIndices)
             ELSE RemoveHidden(
                      Highlighter(Append(h.graphics,
                                         [entry.graphic EXCEPT !.parent = Null]),
                                  MapDelete(h.highlightSprites, entry.key),
                                  h.highlightGraphics),
                      Tail(entries), visibleMatchIndices)

\* _removeAllHighlights()
_removeAllHighlights(h) ==
    Highlighter(h.graphics
                \o [k \in 1..Len(h.highlightSprites) |->
                       [h.highlightSprites[k].graphic EXCEPT !.parent = Null]],
                <<>>, h.highlightGraphics)

\* The body of the loop over lineMatches for one match on the line of
\* textSprite.
HighlightMatch(h, matchIndex, match, textSprite, highlightStyle) ==
    LET beforeWidth == Min(match.startChar, Len(match.lineText)) * config.charWidth
        matchWidth == (match.endChar - match.startChar) * config.charWidth
        xPos == textSprite.x + beforeWidth - highlightStyle.padding
        yPos == textSprite.y - highlightStyle.padding
        width == matchWidth + highlightStyle.padding * 2
        height == config.lineHeight + highlightStyle.padding * 2
        known == MapHas(h.highlightSprites, matchIndex)
        map == IF known THEN h.highlightSprites
               ELSE Append(h.highlightSprites,
                           [key |-> matchIndex,
                            graphic |-> [NewGraphics(matchIndex)
                                             EXCEPT !.parent = Some("container")]])
    IN  Highlighter(h.graphics,
                    [k \in 1..Len(map) |->
                        IF map[k].key # matchIndex THEN map[k]
                        ELSE [map[k] EXCEPT !.graphic.x = xPos, !.graphic.y = yPos,
                                            !.graphic.width = width,
                                            !.graphic.height = height,
                                            !.graphic.borderWidth =
                                                highlightStyle.borderWidth]],
                    Append(h.highlightGraphics,
                           [x |-> xPos, y |-> yPos, width |-> width, height |-> height]))

\* searchManager.getMatchesForLine(lineIndex): the list, empty if the map
\* has none
getMatchesForLine(searchManager, lineIndex) ==
    IF lineIndex \in DOMAIN searchManager.matchesByLine
    THEN searchManager.matchesByLine[lineIndex] ELSE <<>>

\* searchManager.getMatch(index): the match, or Null
getMatch(searchManager, index) ==
    IF index >= 0 /\ index < Len(searchManager.searchMatches)
    THEN Some(searchManager.searchMatches[index + 1]) ELSE Null

RECURSIVE HighlightLine(_, _, _, _, _)
HighlightLine(h, lineMatches, searchManager, textSprite, highlightStyle) ==
    IF lineMatches = <<>> THEN h
    ELSE LET match == getMatch(searchManager, Head(lineMatches))
         IN  HighlightLine(
                 IF IsNull(match) THEN h
                 ELSE HighlightMatch(h, Head(lineMatches), Val(match), textSprite,
                                     highlightStyle),
                 Tail(lineMatches), searchManager, textSprite, highlightStyle)

\* The loop of updateHighlights over the entries of textSprites.
RECURSIVE HighlightEntries(_, _, _, _, _)
HighlightEntries(h, entries, texts, searchManager, highlightStyle) ==
    IF entries = <<>> THEN h
    ELSE LET textEntry == Head(entries)
             lineMatches == getMatchesForLine(searchManager, textEntry.key)
         IN  HighlightEntries(
                 IF ~texts[textEntry.sprite].visible \/ Len(lineMatches) = 0 THEN h
                 ELSE HighlightLine(h, lineMatches, searchManager,
                                    texts[textEntry.sprite], highlightStyle),
                 Tail(entries), texts, searchManager, highlightStyle)

\* The match indexes updateHighlights collects in visibleMatchIndices.
VisibleMatchIndices(entries, texts, searchManager) ==
    {matchIndex \in 0..(Len(searchManager.searchMatches) - 1) :
        \E k \in 1..Len(entries) :
            /\ texts[entries[k].sprite].visible
            /\ \E j \in 1..Len(getMatchesForLine(searchManager, entries[k].key)) :
                   getMatchesForLine(searchManager, entries[k].key)[j] = matchIndex}

\* updateHighlights(searchManager, textSprites, zoom, jumpToMatchCallback):
\* entries and texts are the map passed as textSprites and the Text objects
\* its entries refer to.
updateHighlights(h, searchManager, entries, texts, zoomLevel) ==
    LET cleared == Highlighter(<<>>, h.highlightSprites, <<>>)
    IN  IF Len(searchManager.searchMatches) = 0 THEN _removeAllHighlights(cleared)
        ELSE LET drawn == HighlightEntries(cleared, entries, texts, searchManager,
                                           _getHighlightStyle(zoomLevel))
             IN  RemoveHidden(drawn, drawn.highlightSprites,
                              VisibleMatchIndices(entries, texts, searchManager))

(***************************************************************************)
(* SpecRender: one TextRenderer and one HighlightRenderer over the column  *)
(* layout of a list of lines; renderVisibleText, destroy and               *)
(* updateHighlights are called in any order with any visible range, text   *)
(* resolution, search manager and zoom.                                    *)
(***************************************************************************)
\* Line i of the list shown: runs of a's after up to two b's, every fourth
\* line without an a.
RenderLine(i) ==
    IF i % 4 = 2 THEN <<"b", "b">>
    ELSE [k \in 1..(i % 3) |-> "b"] \o <<"a", "a", "a">>
         \o (IF i % 2 = 1 THEN <<"a", "a", "a">> ELSE <<>>)

RenderLines(n) == [i \in 1..n |-> RenderLine(i - 1)]

\* The search managers updateHighlights is called with: cleared, after an
\* exact search, and after setMatches with whole lines.
RenderManagers ==
    {clear(Manager(<<>>, EmptyMap, 0, -1, 0)),
     performSearch(rdLines, <<"A", "A", "A">>)}
    \cup {setMatches(WholeLines(rdLines, Min(MaxSetMatches, Len(rdLines))))}

RenderZooms == {Dec(1, 10), Num(1)}

RenderCall(op, visibleRange, searchManager, zoomLevel) ==
    [op |-> op, visibleRange |-> visibleRange, before |-> textSprites,
     searchManager |-> searchManager, zoom |-> zoomLevel, calls |-> rdLast.calls + 1]

RenderInit ==
    /\ NotRenderIdle
    /\ rdLines \in {RenderLines(n) : n \in 0..MaxRenderLines}
    /\ rdLayout \in {calculateColumnLayout(rdLines, single) : single \in BOOLEAN}
    /\ sprites = <<>>
    /\ textSprites = <<>>
    /\ spritePool = <<>>
    /\ graphics = <<>>
    /\ highlightSprites = <<>>
    /\ highlightGraphics = <<>>
    /\ rdLast = [op |-> "new", visibleRange |-> [start |-> 0, end |-> 0],
                 before |-> <<>>, searchManager |-> <<>>, zoom |-> 0, calls |-> 0]

\* The visible ranges getVisibleLineRange can give for columns of at most
\* maxColumnLength lines.
VisibleRanges(maxColumnLength) ==
    [start : 0..maxColumnLength, end : 0..maxColumnLength]

RenderVisibleTextCall ==
    \E visibleRange \in VisibleRanges(rdLayout.linesPerColumn), textResolution \in 1..2 :
        LET r == renderVisibleText(Renderer(sprites, textSprites, spritePool),
                                   rdLayout.columnLines, rdLayout.linesPerColumn,
                                   visibleRange, textResolution)
        IN  /\ rdLast.calls < MaxRenderCalls
            /\ sprites' = r.sprites
            /\ textSprites' = r.textSprites
            /\ spritePool' = r.spritePool
            /\ rdLast' = RenderCall("renderVisibleText", visibleRange, <<>>, 0)
            /\ UNCHANGED <<rdLines, rdLayout, graphics, highlightSprites, highlightGraphics>>
            /\ UNCHANGED notRenderVars

DestroyCall ==
    LET r == destroy(Renderer(sprites, textSprites, spritePool))
    IN  /\ rdLast.calls < MaxRenderCalls
        /\ sprites' = r.sprites
        /\ textSprites' = r.textSprites
        /\ spritePool' = r.spritePool
        /\ rdLast' = RenderCall("destroy", [start |-> 0, end |-> 0], <<>>, 0)
        /\ UNCHANGED <<rdLines, rdLayout, graphics, highlightSprites, highlightGraphics>>
        /\ UNCHANGED notRenderVars

UpdateHighlightsCall ==
    \E searchManager \in RenderManagers, zoomLevel \in RenderZooms :
        LET h == updateHighlights(Highlighter(graphics, highlightSprites, highlightGraphics),
                                  searchManager, textSprites, sprites, zoomLevel)
        IN  /\ rdLast.calls < MaxRenderCalls
            /\ graphics' = h.graphics
            /\ highlightSprites' = h.highlightSprites
            /\ highlightGraphics' = h.highlightGraphics
            /\ rdLast' = RenderCall("updateHighlights", [start |-> 0, end |-> 0],
                                    searchManager, zoomLevel)
            /\ UNCHANGED <<rdLines, rdLayout, sprites, textSprites, spritePool>>
            /\ UNCHANGED notRenderVars

RenderNext == RenderVisibleTextCall \/ DestroyCall \/ UpdateHighlightsCall

SpecRender == RenderInit /\ [][RenderNext]_vars

\* The keys of a map kept as its entries
Keys(map) == {map[k].key : k \in 1..Len(map)}

\* The (col, i) pairs of the visible range: col a column, i a line of it
\* from visibleRange.start up to visibleRange.end.
RangeCells(columnLines, visibleRange) ==
    {cell \in (0..(Len(columnLines) - 1)) \X (0..MaxRenderLines) :
        /\ visibleRange.start <= cell[2]
        /\ cell[2] < Min(visibleRange.end, Len(columnLines[cell[1] + 1]))}

\* C24: after a renderVisibleText pass the tracked keys are exactly
\* linesPerColumn*col + i for the lines i of the visible range in every
\* column col; the sprite of each is attached, visible, shows the text of
\* that line and stands at the x of its column and the y of its line; a
\* sprite that was tracked before the pass under a key that is not tracked
\* any more is in the pool, detached, invisible and has empty text.
C24_TrackedIsVisibleRange ==
    rdLast.op = "renderVisibleText" =>
        LET cells == RangeCells(rdLayout.columnLines, rdLast.visibleRange)
            KeyOf(cell) == rdLayout.linesPerColumn * cell[1] + cell[2]
        IN  /\ Keys(textSprites) = {KeyOf(cell) : cell \in cells}
            /\ Cardinality(Keys(textSprites)) = Len(textSprites)
            /\ \A cell \in cells :
                  /\ MapHas(textSprites, KeyOf(cell))
                  /\ LET sprite == sprites[MapGet(textSprites, KeyOf(cell)).sprite]
                     IN  /\ ~IsNull(sprite.parent)
                         /\ sprite.visible
                         /\ sprite.text = rdLayout.columnLines[cell[1] + 1][cell[2] + 1]
                         /\ sprite.x = columnXPositions(cell[1])
                         /\ sprite.y = config.padding + cell[2] * config.lineHeight
            /\ \A k \in 1..Len(rdLast.before) :
                  rdLast.before[k].key \notin Keys(textSprites) =>
                      /\ \E j \in 1..Len(spritePool) : spritePool[j] = rdLast.before[k].sprite
                      /\ IsNull(sprites[rdLast.before[k].sprite].parent)
                      /\ ~sprites[rdLast.before[k].sprite].visible
                      /\ sprites[rdLast.before[k].sprite].text = <<>>

\* A pass over several columns that kept a sprite and returned another.
C24_Witness ==
    /\ rdLast.op = "renderVisibleText"
    /\ \E k \in 1..Len(rdLast.before) : rdLast.before[k].key \in Keys(textSprites)
    /\ \E k \in 1..Len(rdLast.before) : rdLast.before[k].key \notin Keys(textSprites)
    /\ Len(rdLayout.columnLines) > 1

\* C30: in every state no sprite is both tracked and in the pool, none is
\* tracked under two keys, none is twice in the pool, and every sprite that
\* was created is tracked or in the pool.
C30_SpritesTrackedOrPooledOnce ==
    LET Tracked == {textSprites[k].sprite : k \in 1..Len(textSprites)}
        Pooled == {spritePool[j] : j \in 1..Len(spritePool)}
    IN  /\ Tracked \cap Pooled = {}
        /\ Cardinality(Tracked) = Len(textSprites)
        /\ Cardinality(Pooled) = Len(spritePool)
        /\ Tracked \cup Pooled = 1..Len(sprites)

\* After a destroy, a pass took some sprites out of the pool again and left
\* others in it.
C30_Witness ==
    /\ rdLast.op = "renderVisibleText"
    /\ rdLast.before = <<>>
    /\ Len(textSprites) > 0
    /\ Len(spritePool) > 1

\* The match indexes of searchManager whose line has a tracked text sprite
\* that is visible.
MatchesOnVisibleLines(searchManager) ==
    {matchIndex \in 0..(Len(searchManager.searchMatches) - 1) :
        \E k \in 1..Len(textSprites) :
            /\ textSprites[k].key = searchManager.searchMatches[matchIndex + 1].lineIndex
            /\ sprites[textSprites[k].sprite].visible}

\* After an updateHighlights pass: the map holds exactly one object per
\* match on a visible line, attached and with its x at the start of the
\* match less inset; the objects the pass took out of the map are detached
\* and belong to other matches; no match, no object.
HighlightsAfterPass(inset) ==
    rdLast.op = "updateHighlights" =>
        LET searchManager == rdLast.searchManager
        IN  /\ Keys(highlightSprites) = MatchesOnVisibleLines(searchManager)
            /\ Cardinality(Keys(highlightSprites)) = Len(highlightSprites)
            /\ \A k \in 1..Len(highlightSprites) :
                  LET graphic == highlightSprites[k].graphic
                      match == searchManager.searchMatches[highlightSprites[k].key + 1]
                      sprite == sprites[MapGet(textSprites, match.lineIndex).sprite]
                  IN  /\ ~IsNull(graphic.parent)
                      /\ graphic.x = sprite.x + match.startChar * config.charWidth - inset
            /\ \A k \in 1..Len(graphics) :
                  /\ IsNull(graphics[k].parent)
                  /\ graphics[k].matchIndex \notin Keys(highlightSprites)
            /\ Len(searchManager.searchMatches) = 0 => highlightSprites = <<>>

\* C29 as stated: after every updateHighlights pass there is exactly one
\* attached highlight object per match on a line with a visible tracked
\* sprite, at x = sprite.x + startChar * charWidth; all other objects are
\* detached and out of the map; with no matches there are none.
C29_HighlightsAtMatchStart == HighlightsAfterPass(0)

\* C29 amended: the same, with x = sprite.x + startChar * charWidth less the
\* padding of the highlight style of the zoom the pass was called with (0 at
\* zoom 0.2 and above, max(1, 2 / zoom) below).
C29_HighlightsAtPaddedMatchStart ==
    HighlightsAfterPass(IF rdLast.op = "updateHighlights"
                        THEN _getHighlightStyle(rdLast.zoom).padding ELSE 0)

\* A zoomed-out pass that kept the object of one match and let go of
\* another's.
C29_Witness ==
    /\ rdLast.op = "updateHighlights"
    /\ rdLast.zoom < HIGHLIGHT_CONFIG.zoomedOut.zoomThreshold
    /\ Len(highlightSprites) > 0
    /\ Len(graphics) > 0

(***************************************************************************)
(* SpecTicker: the controller of createVisualization under its ticker.     *)
(* updateTransform runs on every frame and inside every pan and setZoom;   *)
(* it renders the visible text again only on an even frame count and when  *)
(* the viewport hash changed.  The text sprites tracked are those of the   *)
(* visible range of the last renderVisibleText().                          *)
(***************************************************************************)
MaxTickerInputs == 3

\* Math.floor(a / b) for b > 0
Floor(a, b) == a \div b

\* getVisibleLineRange() of createVisualization for the view v
getVisibleLineRange(v, screen, maxColumnLength) ==
    LET worldTop == Div(-v.offsetY, v.zoom)
        worldBottom == Div(screen.height - v.offsetY, v.zoom)
        scrollPadding == Num(50)
        visibleTop ==
            Max(0, Floor(worldTop - config.padding - scrollPadding, config.lineHeight))
        visibleBottom ==
            Min(maxColumnLength,
                Ceil(worldBottom - config.padding + scrollPadding, config.lineHeight))
    IN  [start |-> visibleTop, end |-> visibleBottom]

\* `${Math.floor(offsetX / 50)}_${Math.floor(offsetY / 50)}_${zoom.toFixed(2)}`
viewportHash(v) ==
    <<Floor(v.offsetX, Num(50)), Floor(v.offsetY, Num(50)), RoundDiv(v.zoom * 100, Scale)>>

\* updateTransform() on the controller state t
updateTransform(t) ==
    LET count == (t.frameCount + 1) % 2
    IN  IF Some(viewportHash(t.view)) # t.lastViewportHash /\ count = 0
        THEN [frameCount |-> count, lastViewportHash |-> Some(viewportHash(t.view)),
              rendered |-> getVisibleLineRange(t.view, t.screen, LinesPerViewColumn),
              view |-> t.view, screen |-> t.screen]
        ELSE [t EXCEPT !.frameCount = count]

Controller(v) ==
    [frameCount |-> frameCount, lastViewportHash |-> lastViewportHash,
     rendered |-> tkRendered, view |-> v, screen |-> tkScreen]

\* The pans of the user: down, up and sideways.
TickerPans == {<<0, Num(25)>>, <<0, -Num(40)>>, <<Num(60), 0>>}

TickerFocals == {<<Null, Null>>, <<Some(0), Some(0)>>}

\* The state at the end of createVisualization: the text was rendered once
\* with zoom 1 and offsets 0, before the initial zoom and offsets were set.
TickerInit ==
    /\ NotTickerIdle
    /\ tkScreen \in Screens
    /\ tkView = InitialView(tkScreen)
    /\ frameCount = 0
    /\ lastViewportHash = Null
    /\ tkRendered = getVisibleLineRange(View(Num(1), 0, 0), tkScreen, LinesPerViewColumn)
    /\ tkInputs = 0

TickerBecomes(t) ==
    /\ Abs(t.view.offsetX) <= MaxOffset
    /\ Abs(t.view.offsetY) <= MaxOffset
    /\ tkView' = t.view
    /\ frameCount' = t.frameCount
    /\ lastViewportHash' = t.lastViewportHash
    /\ tkRendered' = t.rendered
    /\ UNCHANGED tkScreen
    /\ UNCHANGED notTickerVars

\* app.ticker calls updateTransform on a frame
TickFrame ==
    /\ TickerBecomes(updateTransform(Controller(tkView)))
    /\ UNCHANGED tkInputs

TickerPanCall ==
    /\ tkInputs < MaxTickerInputs
    /\ tkInputs' = tkInputs + 1
    /\ \E d \in TickerPans :
          TickerBecomes(updateTransform(Controller(pan(tkView, d[1], d[2]))))

TickerSetZoomCall ==
    /\ tkInputs < MaxTickerInputs
    /\ tkInputs' = tkInputs + 1
    /\ \E newZoom \in ZoomInputs, focal \in TickerFocals :
          /\ ~IsNull(focal[1]) =>
                /\ CanMul(Div(Val(focal[1]) - tkView.offsetX, tkView.zoom), newZoom)
                /\ CanMul(Div(Val(focal[2]) - tkView.offsetY, tkView.zoom), newZoom)
          /\ TickerBecomes(updateTransform(
                 Controller(setZoom(tkView, newZoom, focal[1], focal[2]))))

TickerNext == TickFrame \/ TickerPanCall \/ TickerSetZoomCall

\* The ticker runs for as long as the page is shown.
SpecTicker == TickerInit /\ [][TickerNext]_vars /\ WF_vars(TickFrame)

\* C25: once the pans and setZoom calls have stopped and frames keep
\* coming, the range whose lines have sprites is, from some frame on, the
\* visible range of the final zoom and offsets.
C25_FramesCatchUpWithViewport ==
    <>[](tkRendered = getVisibleLineRange(tkView, tkScreen, LinesPerViewColumn))

(***************************************************************************)
(* SpecControls: one SearchControls on the controller of the All Books     *)
(* view.  The user types, switches the semantic toggle, moves the          *)
(* threshold and clears; the 300 ms timer fires; semantic searches         *)
(* complete in any order.  The controller (search, searchSemantic,         *)
(* clearSearch, the result counts) is the one the specification            *)
(* describes: it keeps a latest-request token and applies the results of   *)
(* the latest request only.                                                *)
(***************************************************************************)
MaxControlActions == 3

\* The match state of the controller
NoMatches == [kind |-> "none", term |-> <<>>]

\* The controller's search(term): performSearch of its SearchManager
controllerSearch(v, term) ==
    [v EXCEPT !.matches = IF Len(term) >= MinTermLength
                          THEN [kind |-> "exact", term |-> term] ELSE NoMatches,
              !.latest = v.latest + 1]

\* The controller's clearSearch()
clearSearch(v) == [v EXCEPT !.matches = NoMatches, !.latest = v.latest + 1]

\* The controller's searchSemantic(term, topK, minScore) up to its first
\* await: the request is in flight under the next token.
searchSemantic(v, term, by, checked) ==
    [v EXCEPT !.latest = v.latest + 1,
              !.inFlight = Append(v.inFlight,
                                  [token |-> v.latest + 1, term |-> term, by |-> by,
                                   checked |-> checked])]

\* getSemanticResultCount(), getSearchResultCount(): 1 stands for any
\* positive count
getSemanticResultCount(v) == IF v.matches.kind = "semantic" THEN 1 ELSE 0
getSearchResultCount(v) == IF v.matches.kind = "none" THEN 0 ELSE 1

\* The texts of searchResults
NoText == [kind |-> "", of |-> NoMatches]
HintText(searchTerm) ==
    IF Len(searchTerm) > 0
    THEN [kind |-> "Enter at least 2 characters to search", of |-> NoMatches]
    ELSE NoText
SearchingText == [kind |-> "Searching...", of |-> NoMatches]

\* updateSearchResults(): the text and the button follow the counts of the
\* controller
updateSearchResults(s) ==
    IF s.c.checked
    THEN LET count == getSemanticResultCount(s.v)
         IN  [s EXCEPT !.c.text = IF count > 0
                                  THEN [kind |-> "Showing semantic matches",
                                        of |-> s.v.matches]
                                  ELSE [kind |-> "No semantic matches found",
                                        of |-> NoMatches],
                       !.c.nextDisabled = (count = 0)]
    ELSE LET count == getSearchResultCount(s.v)
         IN  [s EXCEPT !.c.text = IF count > 0
                                  THEN [kind |-> "Found matches", of |-> s.v.matches]
                                  ELSE [kind |-> "No matches found", of |-> NoMatches],
                       !.c.nextDisabled = (count = 0)]

\* clearTimeout(this.semanticSearchTimer) if it was ever set
ClearTimer(c) ==
    IF IsNull(c.timer) THEN c ELSE [c EXCEPT !.timer = Some([Val(c.timer) EXCEPT !.pending = FALSE])]


\* handleSemanticSearchInput() in the user action by
handleSemanticSearchInput(s, by) ==
    LET cleared == [s EXCEPT !.c = ClearTimer(s.c)]
    IN  IF Len(s.c.searchTerm) < 2
        THEN [cleared EXCEPT !.v = clearSearch(s.v),
                             !.c.text = HintText(s.c.searchTerm),
                             !.c.nextDisabled = TRUE]
        ELSE [cleared EXCEPT !.c.text = SearchingText,
                             !.c.nextDisabled = TRUE,
                             !.c.timer = Some([by |-> by, pending |-> TRUE])]

\* handleSearchInput(term)
handleSearchInput(s, term, by) ==
    LET typed == [s EXCEPT !.c.searchTerm = term]
    IN  IF typed.c.checked THEN handleSemanticSearchInput(typed, by)
        ELSE IF Len(term) >= 2
        THEN updateSearchResults([typed EXCEPT !.v = controllerSearch(s.v, term)])
        ELSE [typed EXCEPT !.v = clearSearch(s.v),
                           !.c.text = HintText(term),
                           !.c.nextDisabled = TRUE]

\* handleSemanticToggle(), the box having changed to the opposite
handleSemanticToggle(s, by) ==
    LET switched == [s EXCEPT !.c.checked = ~s.c.checked,
                              !.v = clearSearch(s.v),
                              !.c.text = HintText(s.c.searchTerm),
                              !.c.nextDisabled = TRUE]
    IN  IF switched.c.checked /\ Len(switched.c.searchTerm) >= 2
        THEN handleSemanticSearchInput(switched, by)
        ELSE switched

\* The input listener of the threshold field
handleThresholdInput(s, by) ==
    IF s.c.checked /\ Len(s.c.searchTerm) >= 2
    THEN handleSemanticSearchInput(s, by) ELSE s

\* SearchControls.clear()
controlsClear(s) ==
    [s EXCEPT !.c = [ClearTimer(s.c) EXCEPT !.searchTerm = <<>>, !.text = NoText,
                                             !.nextDisabled = TRUE],
              !.v = clearSearch(s.v)]

\* The timer callback up to its await
timerCallback(s) ==
    [s EXCEPT !.c.timer = Some([Val(s.c.timer) EXCEPT !.pending = FALSE]),
              !.v = searchSemantic(s.v, s.c.searchTerm, Val(s.c.timer).by, s.c.checked)]

\* The controller settles the request k: the results become the match
\* state if the request is the latest one.
SettleSearch(v, k, outcome) ==
    [v EXCEPT !.inFlight = SubSeq(v.inFlight, 1, k - 1)
                               \o SubSeq(v.inFlight, k + 1, Len(v.inFlight)),
              !.matches = IF outcome = "ready" /\ v.inFlight[k].token = v.latest
                          THEN [kind |-> "semantic", term |-> v.inFlight[k].term]
                          ELSE v.matches]

\* The timer callback after its await, the result having the status outcome
timerContinuation(s, k, outcome) ==
    LET settled == [s EXCEPT !.v = SettleSearch(s.v, k, outcome)]
    IN  IF outcome # "ready"
        THEN [settled EXCEPT !.c.text = [kind |-> "Semantic search unavailable",
                                         of |-> NoMatches],
                             !.c.nextDisabled = TRUE]
        ELSE updateSearchResults(settled)

ControlTerms == {<<>>, <<"a">>, <<"a", "b">>, <<"a", "b", "c">>}

ControlsState == [c |-> scControls, v |-> scVisualization]

ControlsInit ==
    /\ NotControlsIdle
    /\ scControls = [searchTerm |-> <<>>, checked |-> FALSE, timer |-> Null,
                     text |-> NoText, nextDisabled |-> TRUE]
    /\ scVisualization = [matches |-> NoMatches, latest |-> 0, inFlight |-> <<>>]
    /\ scEvent = [kind |-> "new", by |-> 0, stale |-> FALSE, checked |-> FALSE]
    /\ scActions = 0

\* The event kind, of the user action by, leaves the state s; it is stale
\* if the user has acted since the action it belongs to.
ControlsBecome(s, kind, by) ==
    /\ scControls' = s.c
    /\ scVisualization' = s.v
    /\ scEvent' = [kind |-> kind, by |-> by, stale |-> by # scActions',
                   checked |-> s.c.checked]
    /\ UNCHANGED notControlsVars

HandleSearchInputCall ==
    /\ scActions < MaxControlActions
    /\ scActions' = scActions + 1
    /\ \E term \in ControlTerms :
          ControlsBecome(handleSearchInput(ControlsState, term, scActions + 1),
                         "input", scActions + 1)

HandleSemanticToggleCall ==
    /\ scActions < MaxControlActions
    /\ scActions' = scActions + 1
    /\ ControlsBecome(handleSemanticToggle(ControlsState, scActions + 1),
                      "toggle", scActions + 1)

HandleThresholdInputCall ==
    /\ scActions < MaxControlActions
    /\ scActions' = scActions + 1
    /\ ControlsBecome(handleThresholdInput(ControlsState, scActions + 1),
                      "threshold", scActions + 1)

ControlsClearCall ==
    /\ scActions < MaxControlActions
    /\ scActions' = scActions + 1
    /\ ControlsBecome(controlsClear(ControlsState), "clear", scActions + 1)

\* 300 ms after handleSemanticSearchInput, unless the timer was cleared
TimerFires ==
    /\ ~IsNull(scControls.timer)
    /\ Val(scControls.timer).pending
    /\ UNCHANGED scActions
    /\ ControlsBecome(timerCallback(ControlsState), "start", Val(scControls.timer).by)

\* A semantic search in flight completes, in any order
SearchSemanticCompletes ==
    /\ UNCHANGED scActions
    /\ \E k \in 1..Len(scVisualization.inFlight), outcome \in {"ready", "unavailable"} :
          ControlsBecome(timerContinuation(ControlsState, k, outcome),
                         "result", scVisualization.inFlight[k].by)

ControlsNext ==
    \/ HandleSearchInputCall \/ HandleSemanticToggleCall \/ HandleThresholdInputCall
    \/ ControlsClearCall \/ TimerFires \/ SearchSemanticCompletes

SpecControls == ControlsInit /\ [][ControlsNext]_vars

\* C26: the result of a semantic search that arrives after a later user
\* action (a clear, a newer search, any other) changes neither the match
\* state nor the text of searchResults.
C26_StaleResultChangesNothing ==
    [][(scEvent'.kind = "result" /\ scEvent'.stale)
          => /\ scVisualization'.matches = scVisualization.matches
             /\ scControls'.text = scControls.text]_vars

\* C28: a switch of the toggle leaves no matches; while the toggle is off
\* no semantic search starts and no semantic result becomes the match
\* state or the text.
C28_NoSemanticSearchWhileOff ==
    /\ [](scEvent.kind = "toggle" => scVisualization.matches = NoMatches)
    /\ [](~scControls.checked => scVisualization.matches.kind # "semantic")
    /\ [][(scEvent'.kind = "start") => scControls.checked]_vars
    /\ [][(scEvent'.kind = "result" /\ ~scControls.checked)
             => /\ scVisualization'.matches = scVisualization.matches
                /\ scControls'.text = scControls.text]_vars

\* C27: a search or searchByVerseIndex call made when the worker exists,
\* has the buffers (embeddingsPacked of the index is null) and has not
\* reported 'ready' goes to the worker as a request, to be answered with
\* the worker's results; it is not answered from the index's own, emptied
\* fields.
C27_CallBeforeReadyWaitsForWorker ==
    [][(/\ Len(calls') = Len(calls) + 1
        /\ worker /\ ~workerReady
        /\ IsNull(searchIndex.embeddingsPacked))
          => ~IsNull(calls'[Len(calls')].requestId)]_vars

\* C31: whenever no _loadModel call is in progress (none is waiting for
\* loadTransformers or for pipelineFn), globalThis.fetch is the function
\* it was before the first _loadModel call.
C31_FetchRestoredWhenNoLoad ==
    (\A c \in InitCalls : initPc[c] \notin {"loadTransformers", "pipeline"})
        => globalFetch = NativeFetch

(***************************************************************************)
(* SpecViewport: one ViewportManager (part_002); getVisibleLineRange is    *)
(* called with zooms and offsets in any order.  The object a call returns  *)
(* is this.visibleRangeResult, which the manager keeps and writes on every *)
(* call; a caller holding the returned range reads that object.            *)
(***************************************************************************)
MaxViewportCalls == 2

\* (a / b) | 0 for b > 0: the quotient without its fraction
Truncate(a, b) == IF a >= 0 THEN a \div b ELSE -((-a) \div b)

\* new ViewportManager(config, app, maxColumnLength)
ViewportManager(screen, maxColumnLength) ==
    [screen |-> screen, maxColumnLength |-> maxColumnLength,
     visibleRangeResult |-> [start |-> 0, end |-> 0]]

\* The start and end that getVisibleLineRange(zoom, offsetY) writes
computeVisibleRange(vm, zoomLevel, y) ==
    LET worldTop == Div(-y, zoomLevel)
        worldBottom == Div(vm.screen.height - y, zoomLevel)
        scrollPadding == Num(50)
    IN  [start |-> Max(0, Truncate(worldTop - config.padding - scrollPadding,
                                   config.lineHeight)),
         end |-> Min(vm.maxColumnLength,
                     Ceil(worldBottom - config.padding + scrollPadding,
                          config.lineHeight))]

\* ViewportManager.getVisibleLineRange: the manager after the call; the
\* value returned is the manager's visibleRangeResult object itself.
vmGetVisibleLineRange(vm, zoomLevel, y) ==
    [vm EXCEPT !.visibleRangeResult = computeVisibleRange(vm, zoomLevel, y)]

\* zoom levels from the minimum visible zoom to the maximum
ViewportZooms == {Dec(2, 100), Dec(1, 2), Num(1), Num(3)}

\* offsetY: the content pushed below the screen, at rest, and scrolled up
\* past its end
ViewportOffsets == {Num(100), Num(20), 0, -Num(50), -Num(400)}

ViewportInit ==
    /\ NotViewportIdle
    /\ \E screen \in Screens :
          viewportManager = ViewportManager(screen, LinesPerViewColumn)
    /\ vmCalls = <<>>

\* A caller calls getVisibleLineRange(zoom, offsetY) and keeps what it
\* returned.
GetVisibleLineRangeCall ==
    /\ Len(vmCalls) < MaxViewportCalls
    /\ \E zoomLevel \in ViewportZooms, y \in ViewportOffsets :
          /\ viewportManager' = vmGetVisibleLineRange(viewportManager, zoomLevel, y)
          /\ vmCalls' = Append(vmCalls,
                [zoom |-> zoomLevel, offsetY |-> y,
                 computed |-> computeVisibleRange(viewportManager, zoomLevel, y),
                 returned |-> "visibleRangeResult"])
    /\ UNCHANGED notViewportVars

ViewportNext == GetVisibleLineRangeCall

SpecViewport == ViewportInit /\ [][ViewportNext]_vars

\* What a caller reads in the range that call k returned
RangeReturned(k) == viewportManager[vmCalls[k].returned]

\* C32: both start and end of the range returned by getVisibleLineRange lie
\* within [0, maxColumnLength], for every zoom > 0, offsetY and screen.
C32_RangeWithinColumn ==
    vmCalls # <<>> =>
        LET range == RangeReturned(Len(vmCalls))
        IN  /\ 0 <= range.start /\ range.start <= viewportManager.maxColumnLength
            /\ 0 <= range.end /\ range.end <= viewportManager.maxColumnLength

\* C33: getVisibleLineRange has no hidden mutable state: the range a call
\* returned still holds the start and end computed for that call's inputs
\* after any later call, and two calls with the same inputs return equal
\* ranges.
C33_ReturnedRangeKeepsItsValues ==
    /\ \A k \in 1..Len(vmCalls) : RangeReturned(k) = vmCalls[k].computed
    /\ \A j, k \in 1..Len(vmCalls) :
          (vmCalls[j].zoom = vmCalls[k].zoom /\ vmCalls[j].offsetY = vmCalls[k].offsetY)
              => vmCalls[j].computed = vmCalls[k].computed

\* C34: the initial offset centres the content on both axes,
\* (screen - total * zoom) / 2, when the fit-to-screen zoom was not
\* floored, and is the top-left anchor (padding, padding) when the minimum
\* zoom was applied.
C34_InitialOffsetCentredOrTopLeft ==
    IF calculatedZoom(vScreen) < MIN_VISIBLE_ZOOM
    THEN vInit.offsetX = config.padding /\ vInit.offsetY = config.padding
    ELSE /\ vInit.offsetX = Div(vScreen.width - Mul(totalWidth, vInit.zoom), Num(2))
         /\ vInit.offsetY = Div(vScreen.height - Mul(totalHeight, vInit.zoom), Num(2))

(***************************************************************************)
(* SpecResize: the controller of SpecView on a window that is resized:     *)
(* handleResize is called after app.screen has taken its new size, between *)
(* zooms, pans and resets of the user.                                     *)
(***************************************************************************)
\* The sizes the window takes: those of creation and a large one
ResizeScreens == Screens \cup {[width |-> Num(1280), height |-> Num(960)]}

\* Math.abs(zoom - initialZoom) < 0.001
AtInitialZoom(v, previousInitialZoom) ==
    Abs(v.zoom - previousInitialZoom) * 1000 < Num(1)

\* handleResize that never takes the new zoom
handleResizeKeepZoom(v, previousInitialZoom, screen) ==
    [initialZoom |-> calculatedZoom(screen), view |-> resetView(v, screen)]

\* handleResize() on the new screen: the view and initialZoom after it
handleResize(v, previousInitialZoom, screen) ==
    LET newInitialZoom == calculatedZoom(screen)
        resized == IF AtInitialZoom(v, previousInitialZoom)
                   THEN [v EXCEPT !.zoom = newInitialZoom]
                   ELSE v
    IN  [initialZoom |-> newInitialZoom, view |-> resetView(resized, screen)]

\* The window takes a size and handleResize() is called.
HandleResizeCall ==
    /\ vOps < MaxViewOps
    /\ \E screen \in ResizeScreens :
          LET after == handleResize(CurrentView, initialZoom, screen)
          IN  /\ vScreen' = screen
              /\ initialZoom' = after.initialZoom
              /\ zoom' = after.view.zoom
              /\ offsetX' = after.view.offsetX
              /\ offsetY' = after.view.offsetY
              /\ container' = [scale |-> after.view.zoom, x |-> after.view.offsetX,
                               y |-> after.view.offsetY]
              /\ vLast' = [op |-> "handleResize", view |-> CurrentView,
                           initialZoom |-> initialZoom, screen |-> vScreen]
    /\ vOps' = vOps + 1
    /\ UNCHANGED <<viewMatches, viewMatchIndex, vInit>>
    /\ UNCHANGED notViewVars

ResizeNext ==
    \/ HandleResizeCall
    \/ SetZoomCall
    \/ PanCall
    \/ HandleResetZoomCall

SpecResize == ViewInit /\ [][ResizeNext]_vars

C36_InitialZoomAtLeastMinimum ==
    /\ initialZoom >= MIN_VISIBLE_ZOOM
    /\ zoom > 0

\* C37: jumpToMatchAndZoom(m) with a valid index m sets zoom to
\* clamp(5 * previous zoom, 1.0, 3.0), sets the offsets so that the match's
\* world point (its column's x plus startChar * charWidth, its line's y
\* within the column) is at the centre of the screen, sets
\* currentMatchIndex to m and dispatches one zoom-changed notification
\* carrying the new zoom.
C37_JumpAndZoomCentresMatch ==
    (vLast.op = "jumpToMatchAndZoom" /\ vLast.returned) =>
        LET match == viewMatches[vLast.matchIndex + 1]
            column == Min(5, match.lineIndex \div LinesPerViewColumn)
            worldX == config.padding + column * (columnWidth + config.columnGap)
                          + Mul(Num(match.startChar), config.charWidth)
            worldY == config.padding
                          + Mul(Num(match.lineIndex - column * LinesPerViewColumn),
                                config.lineHeight)
            fiveTimes == Mul(vLast.view.zoom, Num(5))
        IN  /\ zoom = IF fiveTimes < Num(1) THEN Num(1)
                      ELSE IF fiveTimes > Num(3) THEN Num(3) ELSE fiveTimes
            /\ Mul(worldX, zoom) + offsetX = Div(vScreen.width, Num(2))
            /\ Mul(worldY, zoom) + offsetY = Div(vScreen.height, Num(2))
            /\ viewMatchIndex = vLast.matchIndex
            /\ vLast.dispatched = <<ZoomChanged(zoom)>>

\* A jump to the match of the second column from a zoom between 0.2 and
\* 0.6, so that neither end of the clamp decides the zoom.
C37_Witness ==
    /\ vLast.op = "jumpToMatchAndZoom"
    /\ vLast.returned
    /\ vLast.matchIndex = 1
    /\ zoom = Mul(vLast.view.zoom, Num(5))
    /\ zoom > Num(1) /\ zoom < Num(3)

(***************************************************************************)
(* The index from lines to matches, checked under SpecMatch.               *)
(***************************************************************************)
\* C38: after any performSearch, setMatches and clear calls, matchesByLine
\* lists for each line exactly the match indices m with
\* searchMatches[m].lineIndex equal to that line, each once and ascending,
\* has no entry for a line without matches, and searchResultCount is
\* searchMatches.length.
C38_MatchesByLineIndexesMatches ==
    LET MatchIndices == 0..Len(searchMatches) - 1
    IN  /\ DOMAIN matchesByLine = {searchMatches[m + 1].lineIndex : m \in MatchIndices}
        /\ \A li \in DOMAIN matchesByLine :
              LET listed == matchesByLine[li]
              IN  /\ \A i \in 1..Len(listed) :
                        /\ listed[i] \in MatchIndices
                        /\ searchMatches[listed[i] + 1].lineIndex = li
                  /\ \A i, j \in 1..Len(listed) : i < j => listed[i] < listed[j]
                  /\ \A m \in MatchIndices :
                        searchMatches[m + 1].lineIndex = li
                            => \E i \in 1..Len(listed) : listed[i] = m
        /\ searchResultCount = Len(searchMatches)

\* A search found two matches in one line.
C38_Witness ==
    /\ smLast.op = "performSearch"
    /\ \E li \in DOMAIN matchesByLine : Len(matchesByLine[li]) = 2

(***************************************************************************)
(* SpecJump: the match list and the current match index of the controller  *)
(* under the searches and the walks through the matches: performSearch,    *)
(* jumpToMatch, jumpToMatchAndZoom and jumpToNextMatch of visualization.js *)
(* and setMatches, moveToNextMatch and clear of the SearchManager, in any  *)
(* order.                                                                  *)
(***************************************************************************)
\* performSearch(term) of visualization.js, found being the matches of the
\* term in the lines: the match list and the current index after it
viewPerformSearch(found) == [searchMatches |-> found, currentMatchIndex |-> -1]

\* The match list and the index become those of m; the view stays.
JumpBecomes(m, op) ==
    /\ viewMatches' = m.searchMatches
    /\ viewMatchIndex' = m.currentMatchIndex
    /\ vLast' = [op |-> op, view |-> CurrentView, matchIndex |-> viewMatchIndex,
                 returned |-> TRUE, dispatched |-> <<>>]
    /\ vOps' = vOps + 1
    /\ UNCHANGED <<vScreen, initialZoom, zoom, offsetX, offsetY, container, vInit>>
    /\ UNCHANGED notViewVars

ViewPerformSearchCall ==
    /\ vOps < MaxViewOps
    /\ \E found \in ViewMatches : JumpBecomes(viewPerformSearch(found), "performSearch")

ViewSetMatchesCall ==
    /\ vOps < MaxViewOps
    /\ \E matches \in ViewMatches : JumpBecomes(setMatches(matches), "setMatches")

ViewMoveToNextMatchCall ==
    /\ vOps < MaxViewOps
    /\ JumpBecomes([searchMatches |-> viewMatches,
                    currentMatchIndex |->
                        moveToNextMatch(viewMatches, viewMatchIndex).currentMatchIndex],
                   "moveToNextMatch")

ViewClearCall ==
    /\ vOps < MaxViewOps
    /\ JumpBecomes(clear(Manager(viewMatches, ByLine(viewMatches), Len(viewMatches),
                                 viewMatchIndex, 0)),
                   "clear")

JumpNext ==
    \/ ViewPerformSearchCall
    \/ ViewSetMatchesCall
    \/ ViewMoveToNextMatchCall
    \/ ViewClearCall
    \/ JumpToMatchCall
    \/ JumpToMatchAndZoomCall
    \/ JumpToNextMatchCall

SpecJump == ViewInit /\ [][JumpNext]_vars

\* C39: after any searches, setMatches, moveToNextMatch / jumpToNextMatch,
\* jumpToMatch, jumpToMatchAndZoom and clear calls, the current match index
\* is -1 or a valid index into the current match list, and it is -1 right
\* after every search, setMatches and clear.
C39_CurrentMatchIndexValid ==
    /\ viewMatchIndex = -1 \/ viewMatchIndex \in 0..Len(viewMatches) - 1
    /\ vLast.op \in {"performSearch", "setMatches", "clear"} => viewMatchIndex = -1

\* A search, setMatches or clear made while a match was the current one.
C39_Witness ==
    /\ vLast.op \in {"performSearch", "setMatches", "clear"}
    /\ vLast.matchIndex = 1
    /\ viewMatchIndex = -1

(***************************************************************************)
(* SpecBackground: one BookBackgroundRenderer (part_001) over the book     *)
(* regions of a text in two columns; render is called in every pass with   *)
(* the visible range that renderVisibleText is given in that pass.         *)
(***************************************************************************)
MaxBackgroundLines == 4
MaxBackgroundPasses == 2

BOOK_BACKGROUND_OPACITY ==
    [veryZoomedOut |-> Dec(35, 100), zoomedOut |-> Dec(25, 100), normal |-> Dec(15, 100),
     veryZoomedOutThreshold |-> Dec(1, 10), zoomedOutThreshold |-> Dec(3, 10)]

_calculateOpacity(zoomLevel) ==
    IF zoomLevel < BOOK_BACKGROUND_OPACITY.veryZoomedOutThreshold
    THEN BOOK_BACKGROUND_OPACITY.veryZoomedOut
    ELSE IF zoomLevel < BOOK_BACKGROUND_OPACITY.zoomedOutThreshold
    THEN BOOK_BACKGROUND_OPACITY.zoomedOut
    ELSE BOOK_BACKGROUND_OPACITY.normal

\* The body of render's loop for the region at index k (1-based) of
\* bookRegions: the rectangles it draws. (The fill colour is left out.)
RenderRegion(regions, k, visibleRange, opacity) ==
    LET region == regions[k]
        rangeStart == visibleRange.start
        rangeEnd == visibleRange.end
    IN  IF region.endLine < rangeStart \/ region.startLine > rangeEnd THEN <<>>
        ELSE LET visibleStart == IF region.startLine > rangeStart
                                 THEN region.startLine ELSE rangeStart
                 visibleEnd == IF region.endLine < rangeEnd
                               THEN region.endLine ELSE rangeEnd
             IN  <<[region |-> k, opacity |-> opacity,
                    x |-> columnXPositions(region.column) - Num(2),
                    y |-> config.padding + visibleStart * config.lineHeight - Num(1),
                    width |-> columnWidth + Num(4),
                    height |-> (visibleEnd - visibleStart + 1) * config.lineHeight
                                   + Num(2)]>>

RECURSIVE RenderRegionsFrom(_, _, _, _)
RenderRegionsFrom(regions, k, visibleRange, opacity) ==
    IF k > Len(regions) THEN <<>>
    ELSE RenderRegion(regions, k, visibleRange, opacity)
         \o RenderRegionsFrom(regions, k + 1, visibleRange, opacity)

\* BookBackgroundRenderer.render: the rectangles on this.graphics after it
backgroundRender(regions, zoomLevel, visibleRange) ==
    RenderRegionsFrom(regions, 1, visibleRange, _calculateOpacity(zoomLevel))

\* lineToBook of a text in columns of n lines: one book, and three books
\* with a book starting inside each column
BackgroundBooks(n) ==
    {[i \in 1..2 * n |-> 0],
     [i \in 1..2 * n |-> IF i <= 2 THEN 0 ELSE IF i <= n + 1 THEN 1 ELSE 2]}

BackgroundInit ==
    /\ NotBackgroundIdle
    /\ backgroundGraphics = <<>>
    /\ \E n \in 2..MaxBackgroundLines, toBook \in BackgroundBooks(MaxBackgroundLines) :
          bgPass = [bookRegions |->
                        calculateBookRegions(<<LayoutLines(n), LayoutLines(n)>>,
                                             SubSeq(toBook, 1, 2 * n), n),
                    linesPerColumn |-> n, visibleRange |-> Null, passes |-> 0]

\* A pass: the text is rendered for visibleRange and the backgrounds are
\* rendered with the same range.
BackgroundRenderCall ==
    /\ bgPass.passes < MaxBackgroundPasses
    /\ \E visibleRange \in VisibleRanges(bgPass.linesPerColumn), zoomLevel \in RenderZooms :
          /\ backgroundGraphics' = backgroundRender(bgPass.bookRegions, zoomLevel, visibleRange)
          /\ bgPass' = [bgPass EXCEPT !.visibleRange = Some(visibleRange),
                                      !.passes = bgPass.passes + 1]
    /\ UNCHANGED notBackgroundVars

BackgroundNext == BackgroundRenderCall

SpecBackground == BackgroundInit /\ [][BackgroundNext]_vars

\* The lines of the region that renderVisibleText renders for the range
LinesInside(region, visibleRange) ==
    {l \in region.startLine..region.endLine : visibleRange.start <= l /\ l < visibleRange.end}

\* The lowest of a set of lines
FirstLine(S) == CHOOSE l \in S : \A other \in S : l <= other

\* C40: in each pass render draws, for every book region with at least one
\* line inside the visible range (start <= line < end, the range of the
\* text in the same pass), exactly one rectangle that spans exactly the
\* region's lines inside the range, and draws nothing for a region with no
\* line inside it.
C40_OneRectanglePerVisibleRegion ==
    ~IsNull(bgPass.visibleRange) =>
        \A k \in 1..Len(bgPass.bookRegions) :
            LET inside == LinesInside(bgPass.bookRegions[k], Val(bgPass.visibleRange))
                drawn == {i \in 1..Len(backgroundGraphics) : backgroundGraphics[i].region = k}
            IN  IF inside = {} THEN drawn = {}
                ELSE /\ Cardinality(drawn) = 1
                     /\ \A i \in drawn :
                           /\ backgroundGraphics[i].y =
                                 config.padding + FirstLine(inside) * config.lineHeight - Num(1)
                           /\ backgroundGraphics[i].height =
                                 Cardinality(inside) * config.lineHeight + Num(2)

====
